---- MODULE Spec2Model ----
(***************************************************************************)
(* A model of the data-access core of gerrit-cli (gerry):                  *)
(*   - the change-record reader getStringValue and the patchset / ref      *)
(*     resolver used by fetch, cherry-pick and tree setup;                 *)
(*   - the bulk paginated fetch of the analyze command;                    *)
(*   - the REST-then-SSH fallback of list, details, comments and fetch;    *)
(*   - the comment-thread builder, its resolution marking and the display  *)
(*     order, for comments that came by REST and by SSH;                   *)
(*   - the identifier check and the SSH command line of the commands;      *)
(*   - the aggregations, the timeline and the CSV rows of the report;      *)
(*   - the readers of a change record and the check of the SSH key file.   *)
(* Go strings that the code slices, trims or formats are sequences of      *)
(* one-character strings; decoded JSON values are tagged records.          *)
(***************************************************************************)
EXTENDS Integers, Sequences, FiniteSets, TLC

VARIABLES
    \* --- fetch / cherry-pick / tree setup: patchset and ref resolution ---
    cmdName,        \* which command runs the shared resolution code
    changeID,       \* args[0]
    patchset,       \* args[1], "" when not given
    change,         \* the record returned by getChangeForFetch
    patchsetNum,    \* local patchsetNum
    refsPath,       \* local refsPath
    rpc,            \* position in the command
    \* --- schema-shape comparison of the resolver ---
    restChange,     \* a record as the REST transport decodes it
    sshChange,      \* a record as the SSH transport decodes it
    restPatchset,   \* getCurrentPatchsetNumber(restChange)
    sshPatchset,    \* getCurrentPatchsetNumber(sshChange)
    restCurrent,    \* the current patchset of the change restChange encodes
    sshCurrent,     \* the current patchset of the change sshChange encodes
    spc,
    \* --- analyze: bulk paginated fetch ---
    analyzeMaxLimit,  \* --max-changes
    analyzePageSize,  \* --page-size
    start,            \* local start of fetchAllChangesWithPagination
    allChanges,       \* local allChanges; the returned slice once returned
    ferr,             \* the returned error
    requests,         \* start offsets of the page requests issued so far
    fetchVia,         \* the transport asked by each request of the fetch
    pages,            \* the pages decoded so far, in order of receipt
    exitBy,           \* which exit of the loop was taken
    console,          \* what runAnalyze reports about the fetch
    prevRun,          \* exit and report of the previous analyze invocation
    fpc,
    \* --- list / details / comments / fetch: REST first, then SSH ---
    op,             \* the handler that runs the logical operation
    request,        \* the logical query (or change id) and the limit of the operation
    sshAsked,       \* the query and limit the SSH attempt was made with
    calls,          \* transport events so far, in order
    logs,           \* logger calls so far: level and message
    restErr,        \* err of the REST attempt
    restResult,     \* value of the REST attempt
    sshOutput,      \* stdout of the gerrit query command, line by line
    sshErr,         \* err of the SSH attempt
    qresult,        \* what the operation hands to its caller
    qerr,           \* the error the operation ends with
    qpc,
    \* --- comments: displayComments ---
    commentsVia,    \* the transport the comments came by
    commentsData,   \* the comments section of the SSH record, when they came by SSH
    comments,       \* the comments handed to displayComments
    showAll,        \* --all
    built,          \* threads as buildCommentThreads returns them
    marked,         \* threads as markThreadResolution returns them
    threads,        \* threads after the --all filter
    displayed,      \* the comments in the order they are printed
    summary,        \* the summary line
    tpc,
    \* --- commands that take a change identifier ---
    command,        \* the command that runs
    identifier,     \* args[0]
    valid,          \* outcome of utils.ValidateChangeID, "unchecked" before it
    issued,         \* transport requests issued so far, in order
    cpc,
    \* --- SSH transport: the gerrit command line ---
    sshCaller,      \* the function that asks the SSH client
    logicalQuery,   \* the query, or the change id, it asks about
    queryLimit,     \* the limit of a list query
    argv,           \* the arguments that follow "gerrit" in exec.Command("ssh", ...)
    apc,
    \* --- analyze: the aggregations of the report ---
    reportChanges,  \* data.Changes
    byRepository,   \* what analyzeByRepository returns
    byAuthor,       \* what analyzeByAuthor returns
    gpc,
    \* --- analyze: the timeline of the report ---
    timelineChanges, \* data.Changes
    byMonth,        \* what analyzeTimeline returns
    mpc,
    \* --- analyze: the CSV report ---
    csvChange,      \* a change of data.Changes
    csvRow,         \* the row generateCSVReport writes for it
    vpc,
    \* --- the readers of a change record ---
    readChange,     \* a decoded change record
    fields,         \* the logical fields each reader extracts from it
    xpc,
    \* --- configuration: the SSH key file ---
    keyCaller,      \* who asks for the validation
    keyPath,        \* the path of the key, c.SSHKey
    keyFile,        \* what the path names in the file system
    keyErr,         \* the error of ValidateSSHKey
    keyWrap,        \* the wrapping message of Config.Validate
    kpc

refVars   == <<cmdName, changeID, patchset, change, patchsetNum, refsPath, rpc>>
shapeVars == <<restChange, sshChange, restPatchset, sshPatchset, restCurrent, sshCurrent, spc>>
fetchVars == <<analyzeMaxLimit, analyzePageSize, start, allChanges, ferr,
               requests, fetchVia, pages, exitBy, console, prevRun, fpc>>
queryVars == <<op, request, sshAsked, calls, logs, restErr, restResult, sshOutput, sshErr,
               qresult, qerr, qpc>>
threadVars == <<commentsVia, commentsData, comments, showAll, built, marked, threads, displayed, summary, tpc>>
commandVars == <<command, identifier, valid, issued, cpc>>
argvVars  == <<sshCaller, logicalQuery, queryLimit, argv, apc>>
reportVars == <<reportChanges, byRepository, byAuthor, gpc>>
timelineVars == <<timelineChanges, byMonth, mpc>>
csvVars == <<csvChange, csvRow, vpc>>
readVars == <<readChange, fields, xpc>>
keyVars == <<keyCaller, keyPath, keyFile, keyErr, keyWrap, kpc>>
vars      == <<refVars, shapeVars, fetchVars, queryVars, threadVars, commandVars,
               argvVars, reportVars,
               timelineVars,
               csvVars,
               readVars,
               keyVars>>

notRef    == <<shapeVars, fetchVars, queryVars, threadVars, commandVars, argvVars,
               reportVars,
               timelineVars,
               csvVars,
               readVars,
               keyVars>>
notShape  == <<refVars, fetchVars, queryVars, threadVars, commandVars, argvVars,
               reportVars,
               timelineVars,
               csvVars,
               readVars,
               keyVars>>
notFetch  == <<refVars, shapeVars, queryVars, threadVars, commandVars, argvVars,
               reportVars,
               timelineVars,
               csvVars,
               readVars,
               keyVars>>
notQuery  == <<refVars, shapeVars, fetchVars, threadVars, commandVars, argvVars,
               reportVars,
               timelineVars,
               csvVars,
               readVars,
               keyVars>>
notThread == <<refVars, shapeVars, fetchVars, queryVars, commandVars, argvVars,
               reportVars,
               timelineVars,
               csvVars,
               readVars,
               keyVars>>
notCommand == <<refVars, shapeVars, fetchVars, queryVars, threadVars, argvVars,
               reportVars,
               timelineVars,
               csvVars,
               readVars,
               keyVars>>
notArgv   == <<refVars, shapeVars, fetchVars, queryVars, threadVars, commandVars,
               reportVars,
               timelineVars,
               csvVars,
               readVars,
               keyVars>>
notReport == <<refVars, shapeVars, fetchVars, queryVars, threadVars, commandVars,
               argvVars,
               timelineVars,
               csvVars,
               readVars,
               keyVars>>
notTimeline == <<refVars, shapeVars, fetchVars, queryVars, threadVars, commandVars, argvVars, reportVars,
               csvVars,
               readVars,
               keyVars>>
notCSV == <<refVars, shapeVars, fetchVars, queryVars, threadVars, commandVars, argvVars, reportVars, timelineVars,
               readVars,
               keyVars>>
notRead == <<refVars, shapeVars, fetchVars, queryVars, threadVars, commandVars, argvVars, reportVars, timelineVars, csvVars,
               keyVars>>
notKey == <<refVars, shapeVars, fetchVars, queryVars, threadVars, commandVars, argvVars, reportVars, timelineVars, csvVars, readVars>>

-----------------------------------------------------------------------------
(* Decoded JSON values (interface{} after json.Unmarshal).                 *)

EmptyMap == [k \in {} |-> 0]
EmptyStr == <<>>

JStr(str)  == [kind |-> "string",  s |-> str,  n |-> 0, m |-> EmptyMap]
JNum(num)  == [kind |-> "float64", s |-> <<>>, n |-> num, m |-> EmptyMap]
JBool(b)   == [kind |-> "bool",    s |-> <<>>, n |-> IF b THEN 1 ELSE 0, m |-> EmptyMap]
JMap(mp)   == [kind |-> "map",     s |-> <<>>, n |-> 0, m |-> mp]
JAbsent    == [kind |-> "absent",  s |-> <<>>, n |-> 0, m |-> EmptyMap]

\* a map with the key k present unless the value is JAbsent
Field(k, v) == IF v.kind = "absent" THEN EmptyMap ELSE (k :> v)

Digit == <<"0", "1", "2", "3", "4", "5", "6", "7", "8", "9">>

RECURSIVE FormatFloat(_)
FormatFloat(num) ==
    IF num < 10 THEN <<Digit[num + 1]>>
    ELSE FormatFloat(num \div 10) \o <<Digit[(num % 10) + 1]>>

ParsesAsInteger(str) ==
    /\ Len(str) > 0
    /\ \A i \in 1..Len(str) : \E d \in 1..10 : str[i] = Digit[d]

getStringValue(data, key) ==
    IF key \in DOMAIN data
    THEN LET val == data[key] IN
         CASE val.kind = "string"  -> val.s
           [] val.kind = "float64" -> FormatFloat(val.n)
           [] val.kind = "bool"    -> IF val.n = 1 THEN <<"t", "r", "u", "e">>
                                      ELSE <<"f", "a", "l", "s", "e">>
           [] OTHER                -> <<"m", "a", "p", "[", "]">>
    ELSE EmptyStr

\* the type assertion data[key].(map[string]interface{})
IsMapAt(data, key) == key \in DOMAIN data /\ data[key].kind = "map"

-----------------------------------------------------------------------------
(* Patchset / ref resolver.                                                *)

\* variant: the revision's sequence number is read under the SSH key name
getCurrentPatchsetNumber_sshKey(chg) ==
    LET currentRevision == getStringValue(chg, "current_revision")
        viaRevisions ==
            /\ IsMapAt(chg, "revisions")
            /\ currentRevision # EmptyStr
            /\ IsMapAt(chg["revisions"].m, currentRevision)
    IN  IF viaRevisions
        THEN getStringValue(chg["revisions"].m[currentRevision].m, "number")
        ELSE IF IsMapAt(chg, "currentPatchSet")
        THEN getStringValue(chg["currentPatchSet"].m, "number")
        ELSE getStringValue(chg, "number")

getCurrentPatchsetNumber(chg) ==
    LET currentRevision == getStringValue(chg, "current_revision")
        viaRevisions ==
            /\ IsMapAt(chg, "revisions")
            /\ currentRevision # EmptyStr
            /\ IsMapAt(chg["revisions"].m, currentRevision)
    IN  IF viaRevisions
        THEN getStringValue(chg["revisions"].m[currentRevision].m, "_number")
        ELSE IF IsMapAt(chg, "currentPatchSet")
        THEN getStringValue(chg["currentPatchSet"].m, "number")
        ELSE getStringValue(chg, "number")

\* variant: the shard is taken from the front of the identifier
getChangePrefix_firstTwo(id) ==
    IF Len(id) >= 2
    THEN SubSeq(id, 1, 2)
    ELSE <<"0", "0">>

getChangePrefix(id) ==
    IF Len(id) >= 2
    THEN SubSeq(id, Len(id) - 1, Len(id))
    ELSE <<"0", "0">>

RefsChanges == <<"r", "e", "f", "s", "/", "c", "h", "a", "n", "g", "e", "s", "/">>

\* fmt.Sprintf("refs/changes/%s/%s/%s", getChangePrefix(changeID), changeID, patchsetNum)
FormatRefsPath(id, ps) ==
    RefsChanges \o getChangePrefix(id) \o <<"/">> \o id \o <<"/">> \o ps

-----------------------------------------------------------------------------
(* Inputs of the resolver.                                                 *)

MaxIdLen     == 2      \* longest generated change identifier
MaxPatchset  == 11     \* largest patchset sequence number on the server

IdChars == {"0", "5", "6"}

RECURSIVE StringsUpTo(_, _)
StringsUpTo(chars, len) ==
    IF len = 0 THEN {EmptyStr}
    ELSE LET shorter == StringsUpTo(chars, len - 1)
         IN  shorter \cup {Append(str, c) : str \in shorter, c \in chars}

ExampleChangeID == <<"3", "8", "4", "4", "6", "5">>

ChangeIDs == (StringsUpTo(IdChars, MaxIdLen) \ {EmptyStr}) \cup {ExampleChangeID}

PatchsetArgs == {EmptyStr, <<"8">>}

CommandNames == {"fetch", "cherry-pick", "tree setup"}

R1 == <<"r", "1">>
R2 == <<"r", "2">>

Revision(num) == JMap("_number" :> JNum(num))

RevisionsChoices ==
    << JAbsent,
       JStr(<<"x">>),
       JMap(EmptyMap),
       JMap(R1 :> Revision(2)),
       JMap(R1 :> JMap(EmptyMap)),
       JMap(R1 :> JStr(<<"x">>)),
       JMap((R1 :> Revision(1)) @@ (R2 :> Revision(12))) >>

CurrentRevisionChoices == << JAbsent, JStr(EmptyStr), JStr(R1), JStr(R2) >>

CurrentPatchSetChoices ==
    << JAbsent,
       JStr(<<"x">>),
       JMap(EmptyMap),
       JMap("number" :> JNum(3)),
       JMap("number" :> JStr(<<"3">>)) >>

NumberChoices == << JAbsent, JNum(65), JStr(<<"n", "a">>) >>

MakeChange(rv, cr, cp, nm) ==
    Field("revisions", rv) @@ Field("current_revision", cr)
        @@ Field("currentPatchSet", cp) @@ Field("number", nm)

-----------------------------------------------------------------------------
(* runFetch / runCherryPick / runTreeSetup after getChangeForFetch         *)
(* returned a record: determine the patchset, then build the ref path.     *)

RefIdle ==
    /\ cmdName = "none" /\ changeID = EmptyStr /\ patchset = EmptyStr
    /\ change = EmptyMap /\ patchsetNum = EmptyStr /\ refsPath = EmptyStr
    /\ rpc = "idle"

RefInit ==
    /\ cmdName \in CommandNames
    /\ changeID \in ChangeIDs
    /\ patchset \in PatchsetArgs
    /\ \E rv \in 1..Len(RevisionsChoices), cr \in 1..Len(CurrentRevisionChoices),
          cp \in 1..Len(CurrentPatchSetChoices), nm \in 1..Len(NumberChoices) :
            change = MakeChange(RevisionsChoices[rv], CurrentRevisionChoices[cr],
                                CurrentPatchSetChoices[cp], NumberChoices[nm])
    /\ patchsetNum = EmptyStr
    /\ refsPath = EmptyStr
    /\ rpc = "change_loaded"

\* "Determine patchset number": the argument if given, else the resolver;
\* an empty result ends the command with "could not determine current patchset"
DeterminePatchset ==
    /\ rpc = "change_loaded"
    /\ LET num == IF patchset = EmptyStr
                  THEN getCurrentPatchsetNumber(change)
                  ELSE patchset
       IN  /\ patchsetNum' = num
           /\ rpc' = IF num = EmptyStr THEN "exit_no_patchset" ELSE "patchset_known"
    /\ UNCHANGED <<cmdName, changeID, patchset, change, refsPath>>
    /\ UNCHANGED notRef

\* "Build the refs path"
BuildRefsPath ==
    /\ rpc = "patchset_known"
    /\ refsPath' = FormatRefsPath(changeID, patchsetNum)
    /\ rpc' = "ref_built"
    /\ UNCHANGED <<cmdName, changeID, patchset, change, patchsetNum>>
    /\ UNCHANGED notRef

-----------------------------------------------------------------------------
(* The same change as each transport decodes it.                           *)

RevKey(i) == <<"r">> \o FormatFloat(i)

\* REST: o=CURRENT_REVISION puts the current revision in the revisions map,
\* o=ALL_REVISIONS every revision; current_revision names the current one
RESTRecord(changeNum, current, allRevisions) ==
    LET keys == IF allRevisions THEN 1..current ELSE {current}
    IN  ("_number" :> JNum(changeNum))
        @@ ("current_revision" :> JStr(RevKey(current)))
        @@ ("revisions" :> JMap([k \in {RevKey(i) : i \in keys} |->
                Revision(CHOOSE i \in keys : RevKey(i) = k)]))

\* SSH: gerrit query --current-patch-set nests currentPatchSet; its number is
\* a JSON number, or a string on older servers
SSHRecord(changeNum, current, asString) ==
    ("number" :> JNum(changeNum))
    @@ ("currentPatchSet" :>
            JMap("number" :> IF asString THEN JStr(FormatFloat(current))
                                         ELSE JNum(current)))

ShapeIdle ==
    /\ restChange = EmptyMap /\ sshChange = EmptyMap
    /\ restPatchset = EmptyStr /\ sshPatchset = EmptyStr
    /\ restCurrent = 0 /\ sshCurrent = 0 /\ spc = "idle"

ShapeInit ==
    /\ restCurrent \in 1..MaxPatchset
    /\ sshCurrent \in 1..MaxPatchset
    /\ \E all \in BOOLEAN : restChange = RESTRecord(65, restCurrent, all)
    /\ \E str \in BOOLEAN : sshChange = SSHRecord(65, sshCurrent, str)
    /\ restPatchset = EmptyStr
    /\ sshPatchset = EmptyStr
    /\ spc = "decoded"

ResolveBoth ==
    /\ spc = "decoded"
    /\ restPatchset' = getCurrentPatchsetNumber(restChange)
    /\ sshPatchset' = getCurrentPatchsetNumber(sshChange)
    /\ spc' = "resolved"
    /\ UNCHANGED <<restChange, sshChange, restCurrent, sshCurrent>>
    /\ UNCHANGED notShape

-----------------------------------------------------------------------------
(* analyze: fetchAllChangesWithPagination and the report of runAnalyze.    *)

MaxMaxLimit == 5      \* largest --max-changes tried
MaxPageSize == 2      \* largest --page-size tried

MoreFlags == {"absent", "true", "false"}

\* a page of len records as the server sends it for request number req: the
\* records are told apart by (req, idx); only the last one may carry
\* _more_changes
MakePage(req, len, more) ==
    [i \in 1..len |-> [req |-> req, idx |-> i,
                       more_changes |-> IF i = len THEN more ELSE "absent"]]

\* variant: a short page does not end the fetch
BreakReason_noShortCheck(pageChanges) ==
    IF Len(pageChanges) = 0 THEN "empty"
    ELSE IF pageChanges[Len(pageChanges)].more_changes # "true" THEN "no_more"
    ELSE "continue"

\* the three break tests of the loop body, in the order the code makes them
BreakReason(pageChanges) ==
    IF Len(pageChanges) = 0 THEN "empty"
    ELSE IF Len(pageChanges) < analyzePageSize THEN "short"
    ELSE IF pageChanges[Len(pageChanges)].more_changes # "true" THEN "no_more"
    ELSE "continue"

NoRun == [exitBy |-> "none", console |-> [kind |-> "none", count |-> 0]]

\* the numbers of records the server may send for n=pageSize; n=0 asks for
\* the limit the server has by default
PageLens(pageSize) == IF pageSize > 0 THEN 0..pageSize ELSE 0..MaxPageSize

\* variant: the next page is asked at the same offset
NextStart_same(from, pageChanges) == from

\* start += len(pageChanges)
NextStart(from, pageChanges) == from + Len(pageChanges)

\* variant: the page takes the place of what was fetched before
Accumulate_lastPage(fetched, pageChanges) == pageChanges

\* allChanges = append(allChanges, pageChanges...)
Accumulate(fetched, pageChanges) == fetched \o pageChanges

\* variant: a failed page is asked again over SSH
OnPageError_ssh == <<"SSH">>

\* the transports asked after a page failed: none, `return nil, err`
OnPageError == <<>>

FetchIdle ==
    /\ analyzeMaxLimit = 0 /\ analyzePageSize = 0 /\ start = 0
    /\ allChanges = <<>> /\ ferr = "none" /\ requests = <<>> /\ pages = <<>>
    /\ fetchVia = <<>>
    /\ exitBy = "none" /\ console = NoRun.console /\ prevRun = NoRun
    /\ fpc = "idle"

FetchInit ==
    /\ analyzeMaxLimit \in 0..MaxMaxLimit
    /\ analyzePageSize \in 0..MaxPageSize
    /\ start = 0
    /\ allChanges = <<>>
    /\ ferr = "none"
    /\ requests = <<>>
    /\ fetchVia = <<>>
    /\ pages = <<>>
    /\ exitBy = "none"
    /\ console = NoRun.console
    /\ prevRun = NoRun
    /\ fpc = "loop"

\* client.Get(path) returns an error: the fetch returns nil and that error
PageRequestFails ==
    /\ fpc = "loop"
    /\ start < analyzeMaxLimit
    /\ requests' = Append(requests, start)
    /\ fetchVia' = Append(fetchVia, "REST") \o OnPageError
    /\ allChanges' = <<>>
    /\ ferr' = "request failed"
    /\ exitBy' = "error"
    /\ fpc' = "returned"
    /\ UNCHANGED <<analyzeMaxLimit, analyzePageSize, start, pages, console, prevRun>>
    /\ UNCHANGED notFetch

\* json.Unmarshal of the body fails: the fetch returns nil and a parse error
PageBodyUndecodable ==
    /\ fpc = "loop"
    /\ start < analyzeMaxLimit
    /\ requests' = Append(requests, start)
    /\ fetchVia' = Append(fetchVia, "REST") \o OnPageError
    /\ allChanges' = <<>>
    /\ ferr' = "failed to parse changes"
    /\ exitBy' = "error"
    /\ fpc' = "returned"
    /\ UNCHANGED <<analyzeMaxLimit, analyzePageSize, start, pages, console, prevRun>>
    /\ UNCHANGED notFetch

\* one iteration of the loop whose request and decoding succeed
PageReceived ==
    /\ fpc = "loop"
    /\ start < analyzeMaxLimit
    /\ \E len \in PageLens(analyzePageSize), more \in MoreFlags :
        LET pageChanges == MakePage(Len(requests) + 1, len, more)
            reason == BreakReason(pageChanges)
        IN  /\ (len = 0 => more = "absent")
            /\ requests' = Append(requests, start)
            /\ fetchVia' = Append(fetchVia, "REST")
            /\ pages' = Append(pages, pageChanges)
            /\ allChanges' = IF reason = "empty" THEN allChanges
                             ELSE Accumulate(allChanges, pageChanges)
            /\ start' = IF reason = "continue" THEN NextStart(start, pageChanges)
                        ELSE start
            /\ exitBy' = IF reason = "continue" THEN exitBy ELSE reason
            /\ fpc' = IF reason = "continue" THEN "loop" ELSE "returned"
    /\ UNCHANGED <<analyzeMaxLimit, analyzePageSize, ferr, console, prevRun>>
    /\ UNCHANGED notFetch

\* the loop condition start < analyzeMaxLimit is false
LimitReached ==
    /\ fpc = "loop"
    /\ ~(start < analyzeMaxLimit)
    /\ exitBy' = "limit"
    /\ fpc' = "returned"
    /\ UNCHANGED <<analyzeMaxLimit, analyzePageSize, start, allChanges, ferr,
                   requests, fetchVia, pages, console, prevRun>>
    /\ UNCHANGED notFetch

\* runAnalyze on the returned (changes, err)
ReportFetch ==
    /\ fpc = "returned"
    /\ console' = IF ferr # "none"
                  THEN [kind |-> "failed to fetch changes", count |-> 0]
                  ELSE IF Len(allChanges) = 0
                  THEN [kind |-> "No changes found", count |-> 0]
                  ELSE [kind |-> "Fetched total changes", count |-> Len(allChanges)]
    /\ fpc' = "reported"
    /\ UNCHANGED <<analyzeMaxLimit, analyzePageSize, start, allChanges, ferr,
                   requests, fetchVia, pages, exitBy, prevRun>>
    /\ UNCHANGED notFetch

\* the command is run once more with the same flags; the server may answer
\* differently this time
AnalyzeAgain ==
    /\ fpc = "reported"
    /\ prevRun = NoRun
    /\ prevRun' = [exitBy |-> exitBy, console |-> console]
    /\ start' = 0
    /\ allChanges' = <<>>
    /\ ferr' = "none"
    /\ requests' = <<>>
    /\ fetchVia' = <<>>
    /\ pages' = <<>>
    /\ exitBy' = "none"
    /\ console' = NoRun.console
    /\ fpc' = "loop"
    /\ UNCHANGED <<analyzeMaxLimit, analyzePageSize>>
    /\ UNCHANGED notFetch

-----------------------------------------------------------------------------
(* The dual-backend operations: runList (listChanges), runDetails and      *)
(* getChangeForFetch (getChange), runComments (getComments).               *)

MaxLines == 3         \* longest SSH output, in lines

Ops == {"runList", "runDetails", "getChangeForFetch", "runComments"}

NoErr == "nil"

\* errors of RESTClient.Get and of the json.Unmarshal that follows it
RESTErrors ==
    { "request failed",
      "authentication failed (401)",
      "access forbidden (403)",
      "endpoint not found (404)",
      "request failed with status",
      "failed to read response",
      "failed to parse" }

\* what a REST attempt returns with a nil error: records are named by number;
\* a list may be empty, a change or comment map may be empty or null
RESTValues(o) ==
    IF o = "runList" THEN {<<>>, <<1>>, <<1, 2>>, <<2, 1>>}
    ELSE {<<>>, <<1>>}

\* one line of `gerrit query --format=JSON` output
SSHLines ==
    { [kind |-> "blank",   num |-> 0],
      [kind |-> "garbage", num |-> 0],
      [kind |-> "stats",   num |-> 0],
      [kind |-> "record",  num |-> 1],
      [kind |-> "record",  num |-> 2] }

RECURSIVE SeqsUpTo(_, _)
SeqsUpTo(elems, len) ==
    IF len = 0 THEN {<<>>}
    ELSE LET shorter == SeqsUpTo(elems, len - 1)
         IN  shorter \cup {Append(sq, e) : sq \in shorter, e \in elems}

SSHOutputs == SeqsUpTo(SSHLines, MaxLines)

\* variant: the records are put in front of those read before
RECURSIVE ParseListSSH_reversed(_)
ParseListSSH_reversed(lines) ==
    IF lines = <<>> THEN <<>>
    ELSE IF Head(lines).kind = "record"
         THEN ParseListSSH_reversed(Tail(lines)) \o <<Head(lines).num>>
         ELSE ParseListSSH_reversed(Tail(lines))

\* listChangesSSH: every decodable line without a type key, in output order
RECURSIVE ParseListSSH(_)
ParseListSSH(lines) ==
    IF lines = <<>> THEN <<>>
    ELSE IF Head(lines).kind = "record"
         THEN <<Head(lines).num>> \o ParseListSSH(Tail(lines))
         ELSE ParseListSSH(Tail(lines))

\* getChangeDetailsSSH / getChangeForFetch: the first decodable line without
\* a type key, else the error "no valid change data found"
RECURSIVE ParseFirstSSH(_)
ParseFirstSSH(lines) ==
    IF lines = <<>> THEN [err |-> "no valid change data found", val |-> <<>>]
    ELSE IF Head(lines).kind = "record"
         THEN [err |-> NoErr, val |-> <<Head(lines).num>>]
         ELSE ParseFirstSSH(Tail(lines))

\* getCommentsSSH: every line is decoded into the one map changeData, which
\* keeps the keys of the lines decoded before; the loop stops at the first
\* line after which changeData has no type key. data.num = 0: no record yet.
RECURSIVE DecodeCommentsSSH(_, _)
DecodeCommentsSSH(lines, data) ==
    IF lines = <<>> THEN data
    ELSE LET line == Head(lines) IN
         IF line.kind \in {"blank", "garbage"}
         THEN DecodeCommentsSSH(Tail(lines), data)
         ELSE LET merged == [hasType |-> data.hasType \/ line.kind = "stats",
                             num |-> IF line.kind = "record" THEN line.num
                                     ELSE data.num]
              IN  IF merged.hasType
                  THEN DecodeCommentsSSH(Tail(lines), merged)
                  ELSE merged

\* parseSSHComments(changeData): the comments of the record, none without one
ParseCommentsSSH(lines) ==
    LET data == DecodeCommentsSSH(lines, [hasType |-> FALSE, num |-> 0])
    IN  IF data.num = 0 THEN <<>> ELSE <<data.num>>

ParseSSH(o, lines) ==
    CASE o = "runList"     -> [err |-> NoErr, val |-> ParseListSSH(lines)]
      [] o = "runComments" -> [err |-> NoErr, val |-> ParseCommentsSSH(lines)]
      [] OTHER             -> ParseFirstSSH(lines)

\* variant: an empty REST result is retried over SSH as well
FallBackToSSH_orEmpty(rerr, rval) == rerr # NoErr \/ rval = <<>>

\* `if err != nil` after the REST call
FallBackToSSH(rerr, rval) == rerr # NoErr

\* variant: the error of the REST attempt is the one passed on
SurfacedError_rest(rerr, serr) == rerr

\* the err that reaches ExitWithError / the return: the SSH call's
SurfacedError(rerr, serr) == serr

\* the message the handler wraps the error in; getChangeForFetch returns it bare
WrapOf(o) ==
    CASE o = "runList"     -> "failed to list changes"
      [] o = "runDetails"  -> "failed to get change details"
      [] o = "runComments" -> "failed to get comments"
      [] OTHER             -> ""

\* LogLevel: DebugLevel < InfoLevel < WarnLevel < ErrorLevel
LevelRank(level) ==
    CASE level = "DEBUG" -> 0
      [] level = "INFO"  -> 1
      [] level = "WARN"  -> 2
      [] level = "ERROR" -> 3

\* the level of the default logger
DefaultLevel == "INFO"

\* Logger.Debugf/Infof/Warnf write only `if l.level <= <their level>`
Written(loggerLevel, entry) == LevelRank(loggerLevel) <= LevelRank(entry.level)

\* what the handler logs before it falls back
FallbackLogs(o) ==
    IF o = "getChangeForFetch"
    THEN << [level |-> "DEBUG", msg |-> "REST API failed"] >>
    ELSE << [level |-> "WARN", msg |-> "REST API failed"],
            [level |-> "INFO", msg |-> "Falling back to SSH..."] >>

NoQErr == [wrap |-> "", cause |-> NoErr]

NoRequest == [query |-> "", limit |-> 0]

\* runList: the query built from --reviewer and --status, and --limit; the
\* other operations: the change id
Requests(o) ==
    IF o = "runList"
    THEN {[query |-> q, limit |-> n] :
            q \in {"owner:u status:open", "reviewer:u status:open"},
            n \in {1, 25}}
    ELSE {[query |-> "384465", limit |-> 0]}

QueryIdle ==
    /\ op = "none" /\ request = NoRequest /\ sshAsked = NoRequest
    /\ calls = <<>> /\ logs = <<>> /\ restErr = NoErr
    /\ restResult = <<>> /\ sshOutput = <<>> /\ sshErr = NoErr
    /\ qresult = <<>> /\ qerr = NoQErr /\ qpc = "idle"

QueryInit ==
    /\ op \in Ops
    /\ request \in Requests(op)
    /\ sshAsked = NoRequest
    /\ calls = <<>>
    /\ logs = <<>>
    /\ restErr = NoErr
    /\ restResult = <<>>
    /\ sshOutput = <<>>
    /\ sshErr = NoErr
    /\ qresult = <<>>
    /\ qerr = NoQErr
    /\ qpc = "begin"

\* the handler calls the REST client and blocks
CallREST ==
    /\ qpc = "begin"
    /\ calls' = Append(calls, "REST:call")
    /\ qpc' = "rest_in_flight"
    /\ UNCHANGED <<op, request, sshAsked, logs, restErr, restResult, sshOutput, sshErr, qresult, qerr>>
    /\ UNCHANGED notQuery

\* the REST call returns an error, or a value with a nil error; the handler
\* tests err and either finishes with the REST value or logs and goes on to SSH
RESTReturns ==
    /\ qpc = "rest_in_flight"
    /\ \E rerr \in RESTErrors \cup {NoErr} :
       \E rval \in (IF rerr = NoErr THEN RESTValues(op) ELSE {<<>>}) :
            /\ restErr' = rerr
            /\ restResult' = rval
            /\ IF FallBackToSSH(rerr, rval)
               THEN /\ logs' = logs \o FallbackLogs(op)
                    /\ qpc' = "rest_failed"
                    /\ UNCHANGED qresult
               ELSE /\ qresult' = rval
                    /\ qpc' = "done"
                    /\ UNCHANGED logs
    /\ calls' = Append(calls, "REST:return")
    /\ UNCHANGED <<op, request, sshAsked, sshOutput, sshErr, qerr>>
    /\ UNCHANGED notQuery

\* the handler runs the gerrit query command over SSH, with the query and
\* limit (or change id) it gave to the REST attempt, and blocks
CallSSH ==
    /\ qpc = "rest_failed"
    /\ calls' = Append(calls, "SSH:call")
    /\ qpc' = "ssh_in_flight"
    /\ sshAsked' = request
    /\ UNCHANGED <<op, request, logs, restErr, restResult, sshOutput, sshErr, qresult, qerr>>
    /\ UNCHANGED notQuery

\* the SSH attempt is over: cmd.Run() failed ("SSH command failed"), or the
\* command printed its output, which the handler parses
SSHReturns ==
    /\ qpc = "ssh_in_flight"
    /\ \E ran \in BOOLEAN :
       \E out \in (IF ran THEN SSHOutputs ELSE {<<>>}) :
            LET attempt == IF ran THEN ParseSSH(op, out)
                           ELSE [err |-> "SSH command failed", val |-> <<>>]
            IN  /\ sshOutput' = out
                /\ sshErr' = attempt.err
                /\ IF attempt.err # NoErr
                   THEN /\ qerr' = [wrap |-> WrapOf(op),
                                    cause |-> SurfacedError(restErr, attempt.err)]
                        /\ qpc' = "failed"
                        /\ UNCHANGED qresult
                   ELSE /\ qresult' = attempt.val
                        /\ qpc' = "done"
                        /\ UNCHANGED qerr
    /\ calls' = Append(calls, "SSH:return")
    /\ UNCHANGED <<op, request, sshAsked, logs, restErr, restResult>>
    /\ UNCHANGED notQuery

-----------------------------------------------------------------------------
(* comments: buildCommentThreads, markThreadResolution, displayComments.   *)

MaxComments == 3      \* most comments on a change
MaxThreadLen == 2     \* most comments on one file and line

\* the characters in use, in byte order
ByteOrder ==
    <<"\t", "\n", "\r", " ", "!", "-", ".", "/", "0", "1", "2", "3", "4", "5",
      "6", "7", "8", "9", ":", "D", "E", "N", "O", "T", "a", "b", "d", "e", "f",
      "i", "n", "o", "p", "q", "x">>

ByteRank ==
    [c \in {ByteOrder[i] : i \in 1..Len(ByteOrder)} |->
        CHOOSE i \in 1..Len(ByteOrder) : ByteOrder[i] = c]

ByteOf(c) == ByteRank[c]

\* the < of Go strings
RECURSIVE StrLess(_, _)
StrLess(x, y) ==
    IF y = <<>> THEN FALSE
    ELSE IF x = <<>> THEN TRUE
    ELSE IF Head(x) # Head(y) THEN ByteOf(Head(x)) < ByteOf(Head(y))
    ELSE StrLess(Tail(x), Tail(y))

WhiteSpace == {"\t", "\n", "\r", " "}

RECURSIVE TrimLeft(_)
TrimLeft(str) ==
    IF str # <<>> /\ Head(str) \in WhiteSpace THEN TrimLeft(Tail(str)) ELSE str

RECURSIVE TrimRight(_)
TrimRight(str) ==
    IF str # <<>> /\ str[Len(str)] \in WhiteSpace
    THEN TrimRight(SubSeq(str, 1, Len(str) - 1))
    ELSE str

\* strings.TrimSpace
TrimSpace(str) == TrimRight(TrimLeft(str))

UpperCase == <<"D", "E", "N", "O">>
LowerCase == <<"d", "e", "n", "o">>

\* the case folding of a character
Fold(c) ==
    IF \E i \in 1..Len(UpperCase) : UpperCase[i] = c
    THEN LowerCase[CHOOSE i \in 1..Len(UpperCase) : UpperCase[i] = c]
    ELSE c

\* strings.EqualFold
EqualFold(x, y) ==
    /\ Len(x) = Len(y)
    /\ \A i \in 1..Len(x) : Fold(x[i]) = Fold(y[i])

Done == <<"D", "o", "n", "e">>

\* variant: the key is the file alone
threadKey_fileOnly(c) == c.File

\* the thread key fmt.Sprintf("%s:%d", comment.File, comment.Line)
threadKey(c) == c.File \o <<":">> \o FormatFloat(c.Line)

\* sort.Slice does not promise to keep equal elements in their order: a sort
\* may leave any arrangement that is ascending
Without(sq, i) == SubSeq(sq, 1, i - 1) \o SubSeq(sq, i + 1, Len(sq))

\* sort.Slice(thread, Updated <): every arrangement in ascending order
RECURSIVE SortedByUpdated(_)
SortedByUpdated(sq) ==
    IF sq = <<>> THEN {<<>>}
    ELSE LET least == {i \in 1..Len(sq) :
                        \A k \in 1..Len(sq) : ~StrLess(sq[k].Updated, sq[i].Updated)}
         IN  UNION {{<<sq[i]>> \o rest : rest \in SortedByUpdated(Without(sq, i))}
                    : i \in least}

\* variant: the line alone is compared
FileLineLess_lineOnly(x, y) == x.Line < y.Line

\* the less function of the sort of displayComments: file, then line
FileLineLess(x, y) ==
    IF x.File # y.File THEN StrLess(x.File, y.File) ELSE x.Line < y.Line

\* sort.Slice(comments, file then line): every arrangement in ascending order
RECURSIVE SortedByFileLine(_)
SortedByFileLine(sq) ==
    IF sq = <<>> THEN {<<>>}
    ELSE LET least == {i \in 1..Len(sq) :
                        \A k \in 1..Len(sq) : ~FileLineLess(sq[k], sq[i])}
         IN  UNION {{<<sq[i]>> \o rest : rest \in SortedByFileLine(Without(sq, i))}
                    : i \in least}

KeysOf(cs) == {threadKey(cs[i]) : i \in 1..Len(cs)}

\* threadMap[key]: the comments with that key, in input order
Group(cs, key) ==
    LET Keyed(c) == threadKey(c) = key IN SelectSeq(cs, Keyed)

\* the orders in which `range threadMap` may visit a set of keys
RECURSIVE KeyOrders(_)
KeyOrders(keys) ==
    IF keys = {} THEN {<<>>}
    ELSE UNION {{<<k>> \o rest : rest \in KeyOrders(keys \ {k})} : k \in keys}

RECURSIVE ThreadsInOrder(_, _)
ThreadsInOrder(cs, ks) ==
    IF ks = <<>> THEN {<<>>}
    ELSE {<<thread>> \o rest :
            thread \in SortedByUpdated(Group(cs, Head(ks))),
            rest \in ThreadsInOrder(cs, Tail(ks))}

\* the possible results of buildCommentThreads
buildCommentThreads(cs) ==
    UNION {ThreadsInOrder(cs, ks) : ks \in KeyOrders(KeysOf(cs))}

\* variant: the message is compared with "Done" as it is
IsResolved_exact(lastComment) ==
    ~lastComment.Unresolved \/ lastComment.Message = Done

\* isResolved of markThreadResolution
IsResolved(lastComment) ==
    ~lastComment.Unresolved \/ EqualFold(TrimSpace(lastComment.Message), Done)

markThread(thread) ==
    IF Len(thread) = 0 THEN thread
    ELSE LET isResolved == IsResolved(thread[Len(thread)])
         IN  [i \in 1..Len(thread) |-> [thread[i] EXCEPT !.Unresolved = ~isResolved]]

markThreadResolution(ths) == [t \in 1..Len(ths) |-> markThread(ths[t])]

RECURSIVE Flatten(_)
Flatten(ths) == IF ths = <<>> THEN <<>> ELSE Head(ths) \o Flatten(Tail(ths))

(* Inputs. *)

Files    == {<<"a">>, <<"b">>}
Lines    == {1, 2}
Stamps   == {<<"1">>, <<"2">>}
Fix      == <<"f", "i", "x">>
DoneLoose == <<" ", "d", "O", "N", "E", "\n">>

\* message and server-reported unresolved flag of a comment
Remarks ==
    { [Message |-> Fix,       Unresolved |-> TRUE],
      [Message |-> Fix,       Unresolved |-> FALSE],
      [Message |-> DoneLoose, Unresolved |-> TRUE] }

Places ==
    { [File |-> <<"a">>, Line |-> 1],
      [File |-> <<"a">>, Line |-> 2],
      [File |-> <<"b">>, Line |-> 1] }

\* comment number id of the input; id is not a field of Comment, it tells
\* comments of equal content apart
MakeComment(id, place, stamp, remark) ==
    [id |-> id, File |-> place.File, Line |-> place.Line, Updated |-> stamp,
     Message |-> remark.Message, Unresolved |-> remark.Unresolved]

NoSummary == [label |-> "none", total |-> 0, unresolved |-> 0]

ThreadIdle ==
    /\ commentsVia = "none" /\ commentsData = <<>>
    /\ comments = <<>> /\ showAll = FALSE
    /\ built = <<>> /\ marked = <<>> /\ threads = <<>>
    /\ displayed = <<>> /\ summary = NoSummary /\ tpc = "idle"

\* parseRESTComments appends the comments file by file, the files in any
\* order: the comments of one file are next to each other
FileByFile(pl) ==
    \A i, j, k \in DOMAIN pl :
        (i < j /\ j < k /\ pl[i].File = pl[k].File) => pl[j].File = pl[i].File

\* the comments parseRESTComments hands to displayComments
ThreadInit ==
    /\ commentsVia = "REST"
    /\ commentsData = <<>>
    /\ \E len \in 0..MaxComments :
         \E pl \in [1..len -> Places] :
            /\ \A p \in Places :
                  Cardinality({i \in 1..len : pl[i] = p}) <= MaxThreadLen
            /\ FileByFile(pl)
            /\ \E st \in [1..len -> Stamps], rm \in [1..len -> Remarks] :
                  comments =
                      [i \in 1..len |-> MakeComment(i, pl[i], st[i], rm[i])]
    /\ showAll \in BOOLEAN
    /\ built = <<>>
    /\ marked = <<>>
    /\ threads = <<>>
    /\ displayed = <<>>
    /\ summary = NoSummary
    /\ tpc = "fetched"

\* variant: the flag is read from the record
parseSSHComment_readsFlag(id, comment) ==
    [id |-> id,
     File |-> getStringValue(comment, "file"),
     Line |-> IF "line" \in DOMAIN comment /\ comment["line"].kind = "float64"
              THEN comment["line"].n ELSE 0,
     Updated |-> getStringValue(comment, "timestamp"),
     Message |-> getStringValue(comment, "message"),
     Unresolved |-> "unresolved" \in DOMAIN comment /\ comment["unresolved"].n = 1]

\* the Comment parseSSHComments makes of one entry of the comments section:
\* File, Message, Updated and Line are set, Unresolved keeps its zero value
parseSSHComment(id, comment) ==
    [id |-> id,
     File |-> getStringValue(comment, "file"),
     Line |-> IF "line" \in DOMAIN comment /\ comment["line"].kind = "float64"
              THEN comment["line"].n ELSE 0,
     Updated |-> getStringValue(comment, "timestamp"),
     Message |-> getStringValue(comment, "message"),
     Unresolved |-> FALSE]

parseSSHComments(section) ==
    [i \in 1..Len(section) |-> parseSSHComment(i, section[i])]

\* message and unresolved key of an entry of the SSH comments section
SSHRemarks ==
    { [Message |-> Fix,       Flag |-> JAbsent],
      [Message |-> Fix,       Flag |-> JBool(TRUE)],
      [Message |-> DoneLoose, Flag |-> JBool(TRUE)] }

SSHStamps == {1, 2}

SSHComment(place, stamp, remark) ==
    ("file" :> JStr(place.File)) @@ ("line" :> JNum(place.Line))
    @@ ("timestamp" :> JNum(stamp)) @@ ("message" :> JStr(remark.Message))
    @@ Field("unresolved", remark.Flag)

\* the comments getCommentsSSH hands to displayComments after a REST failure
ThreadSSHInit ==
    /\ commentsVia = "SSH"
    /\ \E len \in 0..MaxComments :
         \E pl \in [1..len -> Places] :
            /\ \A p \in Places :
                  Cardinality({i \in 1..len : pl[i] = p}) <= MaxThreadLen
            /\ \E st \in [1..len -> SSHStamps], rm \in [1..len -> SSHRemarks] :
                  commentsData = [i \in 1..len |-> SSHComment(pl[i], st[i], rm[i])]
    /\ comments = parseSSHComments(commentsData)
    /\ showAll \in BOOLEAN
    /\ built = <<>>
    /\ marked = <<>>
    /\ threads = <<>>
    /\ displayed = <<>>
    /\ summary = NoSummary
    /\ tpc = "fetched"

\* runComments: "No comments found on this change."
NoCommentsFound ==
    /\ tpc = "fetched"
    /\ Len(comments) = 0
    /\ tpc' = "no_comments"
    /\ UNCHANGED <<commentsVia, commentsData, comments, showAll, built, marked,
                   threads, displayed, summary>>
    /\ UNCHANGED notThread

IsUnresolvedThread(thread) == Len(thread) > 0 /\ thread[1].Unresolved

\* variant: no thread is dropped
FilterThreads_all(ths) == ths

\* the filter of displayComments: without --all only the threads whose first
\* comment is unresolved
FilterThreads(ths) ==
    IF showAll THEN ths ELSE SelectSeq(ths, IsUnresolvedThread)

\* the summary of displayComments, counted over threads
Summary(ths) ==
    [label |-> IF showAll THEN "Total threads" ELSE "Unresolved threads",
     total |-> Len(ths),
     unresolved |-> Len(SelectSeq(ths, IsUnresolvedThread))]

\* displayComments(comments): build the threads, mark them, filter them;
\* with nothing left print "No unresolved comment threads found" and return,
\* else flatten, sort by file then line, print file by file and summarise
DisplayComments ==
    /\ tpc = "fetched"
    /\ Len(comments) > 0
    /\ built' \in buildCommentThreads(comments)
    /\ marked' = markThreadResolution(built')
    /\ threads' = FilterThreads(marked')
    /\ IF ~showAll /\ Len(threads') = 0
       THEN /\ tpc' = "none_unresolved"
            /\ UNCHANGED <<displayed, summary>>
       ELSE /\ displayed' \in SortedByFileLine(Flatten(threads'))
            /\ summary' = Summary(threads')
            /\ tpc' = "printed"
    /\ UNCHANGED <<commentsVia, commentsData, comments, showAll>>
    /\ UNCHANGED notThread

-----------------------------------------------------------------------------
(* Commands that take a change identifier: validation, then requests.      *)

HexLen == 40
Digits == {"0", "1", "2", "3", "4", "5", "6", "7", "8", "9"}
HexChars == Digits \cup {"a", "b", "c", "d", "e", "f", "A", "B", "C", "D", "E", "F"}

\* changeNumberRegex ^\d+$
IsChangeNumber(id) == Len(id) > 0 /\ \A i \in 1..Len(id) : id[i] \in Digits

\* changeIDRegex ^I[0-9a-fA-F]{40}$
IsFullChangeID(id) ==
    /\ Len(id) = 1 + HexLen
    /\ id[1] = "I"
    /\ \A i \in 2..Len(id) : id[i] \in HexChars

\* utils.ValidateChangeID: TRUE for a nil error
ValidateChangeID(id) ==
    IF id = <<>> THEN FALSE
    ELSE IF IsChangeNumber(id) THEN TRUE
    ELSE IsFullChangeID(id)

Commands ==
    {"comments", "details", "fetch", "cherry-pick", "tree setup", "failures",
     "retrigger", "rebase"}

\* the handlers that call utils.ValidateChangeID on args[0]
Validates(c) ==
    c \in {"comments", "cherry-pick", "tree setup", "failures", "retrigger", "rebase"}

\* the handlers that go on to SSH when their REST request fails
FallsBack(c) == c \in {"comments", "details", "fetch", "cherry-pick", "tree setup"}

HexRun(len, c) == [i \in 1..len |-> c]

Identifiers ==
    { <<>>,
      <<"7">>,
      ExampleChangeID,
      <<"1", " ", "2">>,
      <<"a", "b", "c">>,
      <<"7", "\n">>,
      <<"I">> \o HexRun(HexLen, "a"),
      <<"I">> \o HexRun(HexLen - 1, "a"),
      <<"I">> \o HexRun(HexLen - 1, "F") \o <<"g">>,
      <<"i">> \o HexRun(HexLen, "0") }

CommandIdle ==
    /\ command = "none" /\ identifier = <<>> /\ valid = "unchecked"
    /\ issued = <<>> /\ cpc = "idle"

CommandInit ==
    /\ command \in Commands
    /\ identifier \in Identifiers
    /\ valid = "unchecked"
    /\ issued = <<>>
    /\ cpc = "start"

\* if err := utils.ValidateChangeID(changeID); err != nil { ExitWithError }
ValidateArgument ==
    /\ cpc = "start"
    /\ Validates(command)
    /\ IF ValidateChangeID(identifier)
       THEN valid' = "ok" /\ cpc' = "checked"
       ELSE valid' = "rejected" /\ cpc' = "exit_invalid_change_id"
    /\ UNCHANGED <<command, identifier, issued>>
    /\ UNCHANGED notCommand

\* the handler has everything it needs to go to the server
Ready == cpc = "checked" \/ (cpc = "start" /\ ~Validates(command))

\* config.Load, cfg.Validate, isGitRepository or the patchset check fails
SetupFails ==
    /\ Ready
    /\ cpc' = "exit_setup"
    /\ UNCHANGED <<command, identifier, valid, issued>>
    /\ UNCHANGED notCommand

\* the first request of the handler, made with args[0]
RequestREST ==
    /\ Ready
    /\ issued' = Append(issued, [via |-> "REST", id |-> identifier])
    /\ cpc' = "rest_sent"
    /\ UNCHANGED <<command, identifier, valid>>
    /\ UNCHANGED notCommand

\* the REST request succeeds, or fails in a handler without fallback
RESTEnds ==
    /\ cpc = "rest_sent"
    /\ cpc' \in {"done", "exit_rest_failed"}
    /\ cpc' = "exit_rest_failed" => ~FallsBack(command)
    /\ UNCHANGED <<command, identifier, valid, issued>>
    /\ UNCHANGED notCommand

\* the REST request fails and the handler asks over SSH
RequestSSH ==
    /\ cpc = "rest_sent"
    /\ FallsBack(command)
    /\ issued' = Append(issued, [via |-> "SSH", id |-> identifier])
    /\ cpc' = "ssh_sent"
    /\ UNCHANGED <<command, identifier, valid>>
    /\ UNCHANGED notCommand

SSHEnds ==
    /\ cpc = "ssh_sent"
    /\ cpc' \in {"done", "exit_ssh_failed"}
    /\ UNCHANGED <<command, identifier, valid, issued>>
    /\ UNCHANGED notCommand

-----------------------------------------------------------------------------
(* SSH transport: from the logical query to the argument vector.           *)

MaxQueryLen == 3      \* longest query content, in characters

\* the pieces of command text
TextQuery ==
    <<"q", "u", "e", "r", "y">>
TextFormatJSON ==
    <<"-", "-", "f", "o", "r", "m", "a", "t", "=", "J", "S", "O", "N">>
TextCurrentPatchSet ==
    <<"-", "-", "c", "u", "r", "r", "e", "n", "t", "-", "p", "a", "t", "c",
      "h", "-", "s", "e", "t">>
TextAllApprovals ==
    <<"-", "-", "a", "l", "l", "-", "a", "p", "p", "r", "o", "v", "a", "l",
      "s">>
TextComments ==
    <<"-", "-", "c", "o", "m", "m", "e", "n", "t", "s">>
TextFiles ==
    <<"-", "-", "f", "i", "l", "e", "s">>
TextLimit ==
    <<"l", "i", "m", "i", "t", ":">>
Space == <<" ">>

\* the longest prefix of a string that holds no white space
RECURSIVE FirstWord(_)
FirstWord(str) ==
    IF str = <<>> \/ Head(str) \in WhiteSpace THEN <<>>
    ELSE <<Head(str)>> \o FirstWord(Tail(str))

\* strings.Fields: the words between runs of white space
RECURSIVE Fields(_)
Fields(str) ==
    IF str = <<>> THEN <<>>
    ELSE IF Head(str) \in WhiteSpace THEN Fields(Tail(str))
    ELSE LET word == FirstWord(str)
         IN  <<word>> \o Fields(SubSeq(str, Len(word) + 1, Len(str)))

\* SSHClient.ExecuteCommandArgs: the arguments go to exec.Command as they are
ExecuteCommandArgs(args) == args

\* SSHClient.ExecuteCommand: the command string is cut at white space
ExecuteCommand(commandText) == ExecuteCommandArgs(Fields(commandText))

\* SSHClient.QueryChanges: query, --format=JSON, the options, the query
QueryChanges(query, options) ==
    ExecuteCommandArgs(<<TextQuery, TextFormatJSON>> \o options \o <<query>>)

\* SSHClient.GetChangeDetails
GetChangeDetails(id) ==
    QueryChanges(id, <<TextCurrentPatchSet, TextAllApprovals, TextComments, TextFiles>>)

\* listChangesSSH:
\* Sprintf("query --format=JSON --current-patch-set limit:%d %s", limit, query)
ListCommandText(limit, query) ==
    TextQuery \o Space \o TextFormatJSON \o Space \o TextCurrentPatchSet
        \o Space \o TextLimit \o FormatFloat(limit) \o Space \o query

\* getChangeForFetch:
\* Sprintf("query --format=JSON --current-patch-set %s", changeID)
FetchCommandText(id) ==
    TextQuery \o Space \o TextFormatJSON \o Space \o TextCurrentPatchSet
        \o Space \o id

SSHCallers == {"listChangesSSH", "getChangeForFetch", "getChangeDetailsSSH", "getCommentsSSH"}

\* the argument vector a caller produces for a query
ArgvOf(caller, query, limit) ==
    CASE caller = "listChangesSSH"    -> ExecuteCommand(ListCommandText(limit, query))
      [] caller = "getChangeForFetch" -> ExecuteCommand(FetchCommandText(query))
      [] OTHER                        -> GetChangeDetails(query)

QueryChars == {"a", ":", " "}

ArgvIdle ==
    /\ sshCaller = "none" /\ logicalQuery = <<>> /\ queryLimit = 0
    /\ argv = <<>> /\ apc = "idle"

ArgvInit ==
    /\ sshCaller \in SSHCallers
    /\ logicalQuery \in StringsUpTo(QueryChars, MaxQueryLen)
    /\ queryLimit \in (IF sshCaller = "listChangesSSH" THEN {1, 25} ELSE {0})
    /\ argv = <<>>
    /\ apc = "asked"

\* the caller hands its query to the SSH client, which starts ssh
RunSSH ==
    /\ apc = "asked"
    /\ argv' = ArgvOf(sshCaller, logicalQuery, queryLimit)
    /\ apc' = "started"
    /\ UNCHANGED <<sshCaller, logicalQuery, queryLimit>>
    /\ UNCHANGED notArgv

-----------------------------------------------------------------------------
(* analyze: the by-repository and by-author aggregations.                  *)

MaxChanges == 3       \* most changes in a report

\* the author of a change: owner.name, else owner.username, else owner.email
AuthorOf(chg) ==
    IF IsMapAt(chg, "owner")
    THEN LET owner == chg["owner"].m IN
         IF getStringValue(owner, "name") # EmptyStr
         THEN getStringValue(owner, "name")
         ELSE IF getStringValue(owner, "username") # EmptyStr
         THEN getStringValue(owner, "username")
         ELSE getStringValue(owner, "email")
    ELSE EmptyStr

Indices(sq) == 1..Len(sq)

\* repoCounts: one Statistic per non-empty project
RepositoryStats(chgs) ==
    LET Repo(i) == getStringValue(chgs[i], "project")
        repos == {Repo(i) : i \in Indices(chgs)} \ {EmptyStr}
    IN  {[Name |-> repo,
          Count |-> Cardinality({i \in Indices(chgs) : Repo(i) = repo}),
          RepoCount |-> 0] : repo \in repos}

\* authorCounts and authorRepos: one Statistic per non-empty author
AuthorStats(chgs) ==
    LET Repo(i) == getStringValue(chgs[i], "project")
        authors == {AuthorOf(chgs[i]) : i \in Indices(chgs)} \ {EmptyStr}
        Of(author) == {i \in Indices(chgs) : AuthorOf(chgs[i]) = author}
    IN  {[Name |-> author,
          Count |-> Cardinality(Of(author)),
          RepoCount |-> Cardinality({Repo(i) : i \in Of(author)} \ {EmptyStr})]
         : author \in authors}

\* `range` over the map in any order, then sort.Slice(stats, Count >): every
\* arrangement of the statistics in which the counts never go up
RECURSIVE SortedByCount(_)
SortedByCount(stats) ==
    IF stats = {} THEN {<<>>}
    ELSE LET most == {x \in stats : \A y \in stats : y.Count <= x.Count}
         IN  UNION {{<<x>> \o rest : rest \in SortedByCount(stats \ {x})}
                    : x \in most}

\* the possible results of analyzeByRepository
analyzeByRepository(chgs) == SortedByCount(RepositoryStats(chgs))

\* the possible results of analyzeByAuthor
analyzeByAuthor(chgs) == SortedByCount(AuthorStats(chgs))

Projects == {JAbsent, JStr(<<"p">>), JStr(<<"q">>)}

Owners ==
    { JAbsent,
      JMap("name" :> JStr(<<"a">>)),
      JMap("name" :> JStr(<<"b">>)),
      JMap("username" :> JStr(<<"a">>)) }

ReportChange(project, owner) == Field("project", project) @@ Field("owner", owner)

ReportIdle ==
    /\ reportChanges = <<>> /\ byRepository = <<>> /\ byAuthor = <<>>
    /\ gpc = "idle"

\* runAnalyze goes on to the report only with at least one change
ReportInit ==
    /\ \E len \in 1..MaxChanges :
         \E pr \in [1..len -> Projects], ow \in [1..len -> Owners] :
            reportChanges = [i \in 1..len |-> ReportChange(pr[i], ow[i])]
    /\ byRepository = <<>>
    /\ byAuthor = <<>>
    /\ gpc = "fetched"

\* generateMarkdownReport / generateJSONReport: the two aggregations
Aggregate ==
    /\ gpc = "fetched"
    /\ byRepository' \in analyzeByRepository(reportChanges)
    /\ byAuthor' \in analyzeByAuthor(reportChanges)
    /\ gpc' = "aggregated"
    /\ UNCHANGED reportChanges
    /\ UNCHANGED notReport

-----------------------------------------------------------------------------
(* analyze: the monthly timeline of the report.                            *)

\* strings.Split(str, sep) for a separator of one character
RECURSIVE Split(_, _)
Split(str, sep) ==
    IF \A i \in 1..Len(str) : str[i] # sep THEN <<str>>
    ELSE LET i == CHOOSE i \in 1..Len(str) :
                    str[i] = sep /\ \A k \in 1..(i - 1) : str[k] # sep
         IN  <<SubSeq(str, 1, i - 1)>> \o Split(SubSeq(str, i + 1, Len(str)), sep)

\* variant: the updated timestamp is read whatever submitted holds
TimelineStamp_updatedOnly(chg) == getStringValue(chg, "updated")

\* submitted, or updated when submitted is empty
TimelineStamp(chg) ==
    LET submitted == getStringValue(chg, "submitted") IN
    IF submitted = EmptyStr THEN getStringValue(chg, "updated") ELSE submitted

\* the key of monthCounts a timestamp is counted under, EmptyStr when it is
\* counted under none
MonthOf(stamp) ==
    IF stamp = EmptyStr THEN EmptyStr
    ELSE LET parts == Split(stamp, "T")
             dateParts == Split(parts[1], "-")
         IN  IF Len(dateParts) >= 2
             THEN dateParts[1] \o <<"-">> \o dateParts[2]
             ELSE EmptyStr

\* monthCounts: one Statistic per month counted
MonthStats(chgs) ==
    LET Month(i) == MonthOf(TimelineStamp(chgs[i]))
        months == {Month(i) : i \in Indices(chgs)} \ {EmptyStr}
    IN  {[Name |-> month,
          Count |-> Cardinality({i \in Indices(chgs) : Month(i) = month}),
          RepoCount |-> 0] : month \in months}

\* `range` over the map in any order, then sort.Slice(stats, Name <): every
\* arrangement of the statistics in which the names never go down
RECURSIVE SortedByName(_)
SortedByName(stats) ==
    IF stats = {} THEN {<<>>}
    ELSE LET least == {x \in stats : \A y \in stats : ~StrLess(y.Name, x.Name)}
         IN  UNION {{<<x>> \o rest : rest \in SortedByName(stats \ {x})}
                    : x \in least}

\* the possible results of analyzeTimeline
analyzeTimeline(chgs) == SortedByName(MonthStats(chgs))

Jan15 == <<"2", "0", "2", "5", "-", "0", "1", "-", "1", "5", " ", "1", "0", ":", "2", "0">>
Feb01 == <<"2", "0", "2", "5", "-", "0", "2", "-", "0", "1", " ", "0", "8", ":", "0", "0">>
Dec31 == <<"2", "0", "2", "4", "-", "1", "2", "-", "3", "1", "T", "2", "3", ":", "5", "9">>
Mar09 == <<"2", "0", "2", "5", "-", "0", "3", "-", "0", "9", " ", "1", "2", ":", "0", "0">>

Submitteds == {JAbsent, JStr(Jan15), JStr(Feb01), JStr(Dec31)}
Updateds == {JAbsent, JStr(Mar09), JStr(Jan15)}

TimelineChange(submitted, updated) ==
    Field("submitted", submitted) @@ Field("updated", updated)

TimelineIdle ==
    /\ timelineChanges = <<>> /\ byMonth = <<>> /\ mpc = "idle"

\* the changes runAnalyze hands to the report, at least one
TimelineInit ==
    /\ \E len \in 1..MaxChanges :
         \E sb \in [1..len -> Submitteds], up \in [1..len -> Updateds] :
            timelineChanges = [i \in 1..len |-> TimelineChange(sb[i], up[i])]
    /\ byMonth = <<>>
    /\ mpc = "fetched"

\* generateMarkdownReport / generateJSONReport: the timeline
AggregateTimeline ==
    /\ mpc = "fetched"
    /\ byMonth' \in analyzeTimeline(timelineChanges)
    /\ mpc' = "aggregated"
    /\ UNCHANGED timelineChanges
    /\ UNCHANGED notTimeline

-----------------------------------------------------------------------------
(* analyze: the rows of the CSV report.                                    *)

\* strings.ReplaceAll(str, old, new) for old and new of one character
ReplaceAll(str, old, new) ==
    [i \in 1..Len(str) |-> IF str[i] = old THEN new ELSE str[i]]

Comma == ","
DoubleQuote == "\""
SingleQuote == "'"

\* subject, with commas replaced by spaces and double quotes by single quotes
CSVSubject(chg) ==
    ReplaceAll(ReplaceAll(getStringValue(chg, "subject"), Comma, " "),
               DoubleQuote, SingleQuote)

\* changeNum: _number, or number when that is empty
CSVChangeNum(chg) ==
    IF getStringValue(chg, "_number") # EmptyStr
    THEN getStringValue(chg, "_number")
    ELSE getStringValue(chg, "number")

\* ownerName: owner.name, or owner.username when that is empty
CSVOwnerName(chg) ==
    IF IsMapAt(chg, "owner")
    THEN IF getStringValue(chg["owner"].m, "name") # EmptyStr
         THEN getStringValue(chg["owner"].m, "name")
         ELSE getStringValue(chg["owner"].m, "username")
    ELSE EmptyStr

CSVOwnerEmail(chg) ==
    IF IsMapAt(chg, "owner") THEN getStringValue(chg["owner"].m, "email")
    ELSE EmptyStr

\* fmt.Sprintf("%s,%s,\"%s\",%s,%s,%s,%s,%s,%s\n", ...)
CSVRow(chg) ==
    CSVChangeNum(chg) \o <<Comma>>
    \o getStringValue(chg, "project") \o <<Comma>>
    \o <<DoubleQuote>> \o CSVSubject(chg) \o <<DoubleQuote, Comma>>
    \o CSVOwnerName(chg) \o <<Comma>>
    \o CSVOwnerEmail(chg) \o <<Comma>>
    \o getStringValue(chg, "status") \o <<Comma>>
    \o getStringValue(chg, "created") \o <<Comma>>
    \o getStringValue(chg, "updated") \o <<Comma>>
    \o getStringValue(chg, "submitted") \o <<"\n">>

\* "change_number,project,subject,owner_name,owner_email,status,created,updated,submitted\n"
CSVColumns == 9

Subjects ==
    { JAbsent,
      JStr(<<"f", "i", "x">>),
      JStr(<<"f", ",", "x">>),
      JStr(<<"f", "\"", "x", "\"">>) }

CSVOwners ==
    { JAbsent,
      JMap("name" :> JStr(<<"a", "b">>)),
      JMap("name" :> JStr(<<"b", ",", " ", "a">>)),
      JMap("name" :> JStr(<<"a", "\"", "b", "\"">>)),
      JMap("username" :> JStr(<<"a">>)),
      JMap(("name" :> JStr(<<"a", "b">>)) @@ ("email" :> JStr(<<"a", "/", "b">>))) }

CSVNumbers ==
    { EmptyMap, "_number" :> JNum(7), "number" :> JStr(<<"7">>) }

CSVIdle == csvChange = EmptyMap /\ csvRow = <<>> /\ vpc = "idle"

\* one change of data.Changes
CSVInit ==
    /\ \E num \in CSVNumbers, sbj \in Subjects, own \in CSVOwners :
         csvChange = num @@ ("project" :> JStr(<<"p">>))
                         @@ Field("subject", sbj) @@ Field("owner", own)
                         @@ ("status" :> JStr(<<"N", "E", "D">>))
    /\ csvRow = <<>>
    /\ vpc = "fetched"

\* generateCSVReport: the row of the change
WriteCSVRow ==
    /\ vpc = "fetched"
    /\ csvRow' = CSVRow(csvChange)
    /\ vpc' = "written"
    /\ UNCHANGED csvChange
    /\ UNCHANGED notCSV

-----------------------------------------------------------------------------
(* The readers of a change record: list, details, CSV report, authors.     *)

\* changeNum of displayChanges, displayDetailedChanges, displayChangeDetails
changeNum(chg) ==
    IF getStringValue(chg, "_number") # EmptyStr
    THEN getStringValue(chg, "_number")
    ELSE getStringValue(chg, "number")

\* updated of displayChanges, displayDetailedChanges, displayChangeDetails
updated(chg) ==
    IF getStringValue(chg, "updated") # EmptyStr
    THEN getStringValue(chg, "updated")
    ELSE getStringValue(chg, "lastUpdated")

Unknown == <<"u", "n", "k", "n", "o", "w", "n">>

\* owner[key].(string) with ok && value != ""
NonEmptyStringAt(mp, key) ==
    key \in DOMAIN mp /\ mp[key].kind = "string" /\ mp[key].s # EmptyStr

getOwnerName(chg) ==
    IF IsMapAt(chg, "owner")
    THEN LET owner == chg["owner"].m IN
         IF NonEmptyStringAt(owner, "name") THEN owner["name"].s
         ELSE IF NonEmptyStringAt(owner, "username") THEN owner["username"].s
         ELSE IF NonEmptyStringAt(owner, "email") THEN owner["email"].s
         ELSE Unknown
    ELSE Unknown

\* what each reader extracts from a record
ReadBy(chg) ==
    [list    |-> [number |-> changeNum(chg), updated |-> updated(chg),
                  owner |-> getOwnerName(chg)],
     details |-> [number |-> changeNum(chg), updated |-> updated(chg),
                  owner |-> getOwnerName(chg)],
     csv     |-> [number |-> CSVChangeNum(chg),
                  updated |-> getStringValue(chg, "updated"),
                  owner |-> CSVOwnerName(chg)],
     authors |-> [owner |-> AuthorOf(chg)]]

NameA == <<"a">>
UserB == <<"b">>
MailC == <<"c", "/", "d">>

ReadOwners ==
    { JAbsent,
      JMap(EmptyMap),
      JMap("name" :> JStr(NameA)),
      JMap("username" :> JStr(UserB)),
      JMap("email" :> JStr(MailC)),
      JMap(("name" :> JStr(NameA)) @@ ("username" :> JStr(UserB)) @@ ("email" :> JStr(MailC))),
      JMap(("name" :> JStr(EmptyStr)) @@ ("username" :> JStr(UserB))) }

ReadNumbers ==
    { EmptyMap,
      "_number" :> JNum(7),
      "number" :> JStr(<<"8">>),
      ("_number" :> JNum(7)) @@ ("number" :> JStr(<<"8">>)) }

ReadUpdateds ==
    { EmptyMap,
      "updated" :> JStr(Jan15),
      "lastUpdated" :> JNum(17),
      ("updated" :> JStr(Jan15)) @@ ("lastUpdated" :> JNum(17)) }

ReadIdle == readChange = EmptyMap /\ fields = EmptyMap /\ xpc = "idle"

\* a record as one of the transports decodes it
ReadInit ==
    /\ \E num \in ReadNumbers, upd \in ReadUpdateds, own \in ReadOwners :
         readChange = num @@ upd @@ Field("owner", own)
    /\ fields = EmptyMap
    /\ xpc = "decoded"

\* every reader extracts its fields from the record
ReadRecord ==
    /\ xpc = "decoded"
    /\ fields' = ReadBy(readChange)
    /\ xpc' = "read"
    /\ UNCHANGED readChange
    /\ UNCHANGED notRead

-----------------------------------------------------------------------------
(* Configuration: the check of the SSH key file.                           *)

KeyPaths == {"", "/home/u/.ssh/id_rsa", "/home/u/.ssh/id_ed25519", "/nonexistent/path/to/key", "/tmp/key"}

\* what a path names in the file system
FileKinds == {"missing", "inaccessible", "directory", "file"}

\* what a key file holds
KeyContents == {"rsa private key", "ed25519 private key",
                "passphrase-protected private key", "not a valid ssh key", ""}

NoFile == [kind |-> "missing", content |-> ""]

\* utils.ValidateSSHKey(keyPath), the file system holding file at keyPath
ValidateSSHKey(path, file) ==
    IF path = "" THEN "SSH key path cannot be empty"
    ELSE IF file.kind = "missing" THEN "SSH key file does not exist"
    ELSE IF file.kind = "inaccessible" THEN "failed to access SSH key file"
    ELSE IF file.kind = "directory" THEN "SSH key path is a directory, not a file"
    ELSE "nil"

KeyIdle ==
    /\ keyCaller = "none" /\ keyPath = "" /\ keyFile = NoFile
    /\ keyErr = "nil" /\ keyWrap = "" /\ kpc = "idle"

KeyInit ==
    /\ keyCaller \in {"ValidateSSHKey", "Config.Validate"}
    /\ keyPath \in KeyPaths
    /\ \E kind \in FileKinds, content \in KeyContents :
         /\ keyPath = "" => kind = "missing"
         /\ kind # "file" => content = ""
         /\ keyFile = [kind |-> kind, content |-> content]
    /\ keyErr = "nil"
    /\ keyWrap = ""
    /\ kpc = "start"

\* a direct call of utils.ValidateSSHKey
ValidateKey ==
    /\ kpc = "start"
    /\ keyCaller = "ValidateSSHKey"
    /\ keyErr' = ValidateSSHKey(keyPath, keyFile)
    /\ kpc' = "returned"
    /\ UNCHANGED <<keyCaller, keyPath, keyFile, keyWrap>>
    /\ UNCHANGED notKey

\* Config.Validate: the key is validated only if c.SSHKey is set
ConfigValidatesKey ==
    /\ kpc = "start"
    /\ keyCaller = "Config.Validate"
    /\ keyErr' = IF keyPath # "" THEN ValidateSSHKey(keyPath, keyFile) ELSE "nil"
    /\ keyWrap' = IF keyErr' # "nil" THEN "invalid SSH key" ELSE ""
    /\ kpc' = "returned"
    /\ UNCHANGED <<keyCaller, keyPath, keyFile>>
    /\ UNCHANGED notKey

-----------------------------------------------------------------------------
(* Specifications.                                                         *)

RefNext == DeterminePatchset \/ BuildRefsPath
InitRef == RefInit /\ ShapeIdle /\ FetchIdle /\ QueryIdle /\ ThreadIdle
    /\ CommandIdle /\ ArgvIdle /\ ReportIdle /\ TimelineIdle /\ CSVIdle /\ ReadIdle /\ KeyIdle
SpecRef == InitRef /\ [][RefNext]_vars

ShapeNext == ResolveBoth
InitShape == ShapeInit /\ RefIdle /\ FetchIdle /\ QueryIdle /\ ThreadIdle
    /\ CommandIdle /\ ArgvIdle /\ ReportIdle /\ TimelineIdle /\ CSVIdle /\ ReadIdle /\ KeyIdle
SpecShape == InitShape /\ [][ShapeNext]_vars

AnalyzeNext ==
    \/ PageRequestFails
    \/ PageBodyUndecodable
    \/ PageReceived
    \/ LimitReached
    \/ ReportFetch
InitAnalyze == FetchInit /\ RefIdle /\ ShapeIdle /\ QueryIdle /\ ThreadIdle
    /\ CommandIdle /\ ArgvIdle /\ ReportIdle /\ TimelineIdle /\ CSVIdle /\ ReadIdle /\ KeyIdle
SpecAnalyze == InitAnalyze /\ [][AnalyzeNext]_vars

AnalyzeAgainNext == AnalyzeNext \/ AnalyzeAgain
SpecAnalyzeAgain == InitAnalyze /\ [][AnalyzeAgainNext]_vars

QueryNext ==
    \/ CallREST
    \/ RESTReturns
    \/ CallSSH
    \/ SSHReturns
InitQuery == QueryInit /\ RefIdle /\ ShapeIdle /\ FetchIdle /\ ThreadIdle
    /\ CommandIdle /\ ArgvIdle /\ ReportIdle /\ TimelineIdle /\ CSVIdle /\ ReadIdle /\ KeyIdle
SpecQuery == InitQuery /\ [][QueryNext]_vars

ThreadNext ==
    \/ NoCommentsFound
    \/ DisplayComments
InitThread == ThreadInit /\ RefIdle /\ ShapeIdle /\ FetchIdle /\ QueryIdle
    /\ CommandIdle /\ ArgvIdle /\ ReportIdle /\ TimelineIdle /\ CSVIdle /\ ReadIdle /\ KeyIdle
SpecThread == InitThread /\ [][ThreadNext]_vars

InitThreadSSH == ThreadSSHInit /\ RefIdle /\ ShapeIdle /\ FetchIdle /\ QueryIdle
    /\ CommandIdle /\ ArgvIdle /\ ReportIdle /\ TimelineIdle /\ CSVIdle /\ ReadIdle /\ KeyIdle
SpecThreadSSH == InitThreadSSH /\ [][ThreadNext]_vars

CommandNext ==
    \/ ValidateArgument
    \/ SetupFails
    \/ RequestREST
    \/ RESTEnds
    \/ RequestSSH
    \/ SSHEnds
InitCommand == CommandInit /\ RefIdle /\ ShapeIdle /\ FetchIdle /\ QueryIdle
    /\ ThreadIdle /\ ArgvIdle /\ ReportIdle /\ TimelineIdle /\ CSVIdle /\ ReadIdle /\ KeyIdle
SpecCommand == InitCommand /\ [][CommandNext]_vars

ArgvNext == RunSSH
InitArgv == ArgvInit /\ RefIdle /\ ShapeIdle /\ FetchIdle /\ QueryIdle
    /\ ThreadIdle /\ CommandIdle /\ ReportIdle /\ TimelineIdle /\ CSVIdle /\ ReadIdle /\ KeyIdle
SpecArgv == InitArgv /\ [][ArgvNext]_vars

ReportNext == Aggregate
InitReport == ReportInit /\ RefIdle /\ ShapeIdle /\ FetchIdle /\ QueryIdle
    /\ ThreadIdle /\ CommandIdle /\ ArgvIdle /\ TimelineIdle /\ CSVIdle /\ ReadIdle /\ KeyIdle
SpecReport == InitReport /\ [][ReportNext]_vars

TimelineNext == AggregateTimeline
InitTimeline == TimelineInit /\ ArgvIdle /\ CommandIdle /\ FetchIdle /\ QueryIdle /\ RefIdle /\ ReportIdle /\ ShapeIdle /\ ThreadIdle /\ CSVIdle /\ ReadIdle /\ KeyIdle
SpecTimeline == InitTimeline /\ [][TimelineNext]_vars

CSVNext == WriteCSVRow
InitCSV == CSVInit /\ ArgvIdle /\ CommandIdle /\ FetchIdle /\ QueryIdle /\ RefIdle /\ ReportIdle /\ ShapeIdle /\ ThreadIdle /\ TimelineIdle /\ ReadIdle /\ KeyIdle
SpecCSV == InitCSV /\ [][CSVNext]_vars

ReadNext == ReadRecord
InitRead == ReadInit /\ ArgvIdle /\ CSVIdle /\ CommandIdle /\ FetchIdle /\ QueryIdle /\ RefIdle /\ ReportIdle /\ ShapeIdle /\ ThreadIdle /\ TimelineIdle /\ KeyIdle
SpecRead == InitRead /\ [][ReadNext]_vars

KeyNext ==
    \/ ValidateKey
    \/ ConfigValidatesKey
InitKey == KeyInit /\ ArgvIdle /\ CSVIdle /\ CommandIdle /\ FetchIdle /\ QueryIdle /\ ReadIdle /\ RefIdle /\ ReportIdle /\ ShapeIdle /\ ThreadIdle /\ TimelineIdle
SpecKey == InitKey /\ [][KeyNext]_vars

-----------------------------------------------------------------------------
(* Properties of the patchset / ref resolver.                              *)

\* the three resolution paths, each taken on its own
PathRevisions(chg) ==
    LET currentRevision == getStringValue(chg, "current_revision") IN
    IF /\ IsMapAt(chg, "revisions")
       /\ currentRevision \in DOMAIN chg["revisions"].m
       /\ chg["revisions"].m[currentRevision].kind = "map"
    THEN getStringValue(chg["revisions"].m[currentRevision].m, "_number")
    ELSE EmptyStr

PathCurrentPatchSet(chg) ==
    IF IsMapAt(chg, "currentPatchSet")
    THEN getStringValue(chg["currentPatchSet"].m, "number")
    ELSE EmptyStr

PathNumber(chg) == getStringValue(chg, "number")

Resolved == rpc \in {"exit_no_patchset", "patchset_known", "ref_built"}

\* C6: when no patchset argument is given, the resolver reports not-found
\* (the empty result that ends the command) only if none of the revision-map
\* entry, the nested currentPatchSet and the top-level number yields a
\* parseable integer.
C6_NotFoundOnlyIfNoPathYields ==
    (Resolved /\ patchset = EmptyStr /\ patchsetNum = EmptyStr)
        => /\ ~ParsesAsInteger(PathRevisions(change))
           /\ ~ParsesAsInteger(PathCurrentPatchSet(change))
           /\ ~ParsesAsInteger(PathNumber(change))

\* C7: a REST-shaped record and an SSH-shaped record that encode the same
\* current patchset resolve to the same patchset number.
C7_ShapeInvariance ==
    (spc = "resolved" /\ restCurrent = sshCurrent) => restPatchset = sshPatchset

C7_Witness ==
    /\ spc = "resolved"
    /\ restCurrent = 11 /\ sshCurrent = 11
    /\ sshChange["currentPatchSet"].m["number"].kind = "string"
    /\ Cardinality(DOMAIN restChange["revisions"].m) > 1
    /\ restPatchset = <<"1", "1">>
    /\ sshPatchset = <<"1", "1">>

ZeroPadTwo(id) == IF Len(id) = 1 THEN <<"0">> \o id ELSE id

\* C8: for a change identifier shorter than two digits the shard directory
\* is the identifier zero-padded to two characters (5 gives 05).
C8_ShortIdZeroPadded ==
    (rpc = "ref_built" /\ Len(changeID) = 1)
        => refsPath = RefsChanges \o ZeroPadTwo(changeID) \o <<"/">> \o changeID
                        \o <<"/">> \o patchsetNum

ExampleRefsPath ==
    <<"r", "e", "f", "s", "/", "c", "h", "a", "n", "g", "e", "s", "/",
      "6", "5", "/", "3", "8", "4", "4", "6", "5", "/", "8">>

\* C9: for an identifier of at least two characters the ref path is
\* refs/changes/<last two characters>/<identifier>/<patchset>, for each of
\* fetch, cherry-pick and tree setup; 384465 with patchset 8 gives
\* refs/changes/65/384465/8.
C9_RefPathLastTwo ==
    (rpc = "ref_built" /\ Len(changeID) >= 2)
        => /\ Len(refsPath) = 13 + 2 + 1 + Len(changeID) + 1 + Len(patchsetNum)
           /\ SubSeq(refsPath, 1, 13) = RefsChanges
           /\ refsPath[14] = changeID[Len(changeID) - 1]
           /\ refsPath[15] = changeID[Len(changeID)]
           /\ refsPath[16] = "/"
           /\ SubSeq(refsPath, 17, 16 + Len(changeID)) = changeID
           /\ refsPath[17 + Len(changeID)] = "/"
           /\ SubSeq(refsPath, 18 + Len(changeID), Len(refsPath)) = patchsetNum
           /\ (changeID = ExampleChangeID /\ patchsetNum = <<"8">>)
                    => refsPath = ExampleRefsPath

C9_Witness ==
    /\ rpc = "ref_built"
    /\ cmdName = "cherry-pick"
    /\ changeID = ExampleChangeID
    /\ patchsetNum = <<"8">>
    /\ refsPath = ExampleRefsPath

-----------------------------------------------------------------------------
(* Properties of the bulk paginated fetch.                                 *)

PageSizes == [i \in 1..Len(pages) |-> Len(pages[i])]

\* C3: the number of records the bulk fetch holds or returns never exceeds
\* --max-changes; with --max-changes 3 and --page-size 2 at most 2 pages are
\* requested and at most 3 records returned.
C3_NeverExceedsMaxTotal ==
    /\ Len(allChanges) <= analyzeMaxLimit
    /\ (analyzeMaxLimit = 3 /\ analyzePageSize = 2)
            => (Len(requests) <= 2 /\ Len(allChanges) <= 3)

\* a page after which the claim says the fetch stops
EndsResults(page) ==
    \/ Len(page) = 0
    \/ Len(page) < analyzePageSize
    \/ page[Len(page)].more_changes # "true"

\* C4: pages are requested at increasing start offsets, and the fetch stops
\* right after the first page that is empty, shorter than the page size, or
\* whose last record lacks a true _more_changes; with page size 2 and pages
\* of sizes 2, 2, 1 it stops after the third page holding 5 records.
C4_StopsAtFirstEndingPage ==
    /\ \A i, j \in 1..Len(requests) : i < j => requests[i] < requests[j]
    /\ \A i \in 1..Len(pages) :
            EndsResults(pages[i]) => (i = Len(pages) /\ fpc # "loop")
    /\ (analyzePageSize = 2 /\ PageSizes = <<2, 2, 1>>)
            => /\ fpc # "loop"
               /\ exitBy = "short"
               /\ Len(requests) = 3
               /\ Len(allChanges) = 5

C4_Witness ==
    /\ fpc = "returned"
    /\ analyzePageSize = 2
    /\ PageSizes = <<2, 2, 1>>
    /\ requests = <<0, 2, 4>>
    /\ Len(allChanges) = 5
    /\ ferr = "none"

Exhausted == {"empty", "short", "no_more"}

\* C5: hitting the --max-changes cap is not an error, and what is reported
\* for a fetch stopped by the cap differs from what is reported for a fetch
\* of the same command line that stopped because the query was exhausted.
C5_SafetyStopDistinguishable ==
    (fpc = "reported" /\ exitBy = "limit")
        => /\ console.kind # "failed to fetch changes"
           /\ (prevRun.exitBy \in Exhausted => console # prevRun.console)

-----------------------------------------------------------------------------
(* Properties of the dual-backend operations.                              *)

Occurrences(event) == {i \in 1..Len(calls) : calls[i] = event}

\* C1: for listChanges, getChange and getComments the REST transport is
\* called first and returns before anything else happens; SSH is called only
\* after that REST attempt returned an error, never while it is in flight
\* and never after it succeeded, an empty REST result included.
C1_SequentialFallback ==
    /\ calls # <<>> => calls[1] = "REST:call"
    /\ Len(calls) >= 2 => calls[2] = "REST:return"
    /\ Cardinality(Occurrences("REST:call")) <= 1
    /\ \A i \in Occurrences("SSH:call") :
            /\ i = 3
            /\ restErr \in RESTErrors
    /\ qpc = "rest_in_flight" => Occurrences("SSH:call") = {}
    /\ (Len(calls) >= 2 /\ restErr = NoErr)
            => /\ Occurrences("SSH:call") = {}
               /\ qpc = "done"
               /\ qresult = restResult

C1_Witness ==
    /\ qpc = "done"
    /\ calls = <<"REST:call", "REST:return", "SSH:call", "SSH:return">>
    /\ restErr = "endpoint not found (404)"
    /\ sshErr = NoErr

SSHErrors == {"SSH command failed", "no valid change data found"}

\* C2: a logical operation ends in an error only when both the REST attempt
\* and the following SSH attempt failed, and the error passed to the caller
\* is the SSH failure, never the REST failure.
C2_ErrorIsSSHFailure ==
    /\ qpc = "failed" <=> qerr # NoQErr
    /\ qpc = "failed"
            => /\ restErr \in RESTErrors
               /\ sshErr \in SSHErrors
               /\ calls = <<"REST:call", "REST:return", "SSH:call", "SSH:return">>
               /\ qerr.cause = sshErr
               /\ qerr.cause \notin RESTErrors

C2_Witness ==
    /\ qpc = "failed"
    /\ op = "getChangeForFetch"
    /\ restErr = "authentication failed (401)"
    /\ sshErr = "no valid change data found"
    /\ qerr.cause = "no valid change data found"

-----------------------------------------------------------------------------
(* Properties of the comment threads.                                      *)

Finished == tpc \in {"printed", "none_unresolved"}

\* the message is the word done in any letter case, with nothing but white
\* space before and after it
SaysDone(msg) ==
    \E i \in 1..Len(msg) :
        /\ i + 3 <= Len(msg)
        /\ msg[i] \in {"d", "D"}
        /\ msg[i + 1] \in {"o", "O"}
        /\ msg[i + 2] \in {"n", "N"}
        /\ msg[i + 3] \in {"e", "E"}
        /\ \A k \in 1..Len(msg) : (k < i \/ k > i + 3) => msg[k] \in WhiteSpace

\* the comment as the server sent it
Original(c) == comments[c.id]

\* C10: a thread is resolved if and only if its most recent comment (the last
\* one of the thread, which no member is later than) has unresolved=false or
\* a message that is Done once trimmed and compared without case; after
\* marking, every comment of the thread carries that one verdict and is
\* otherwise as it was.
C10_ThreadVerdict ==
    Finished =>
        /\ Len(marked) = Len(built)
        /\ \A t \in 1..Len(marked) :
            LET thread == marked[t]
                last == Original(thread[Len(thread)])
                resolved == ~last.Unresolved \/ SaysDone(last.Message)
            IN  /\ Len(thread) > 0
                /\ \A k \in 1..Len(thread) :
                    /\ ~StrLess(last.Updated, Original(thread[k]).Updated)
                    /\ thread[k].Unresolved = ~resolved
                    /\ thread[k] = [built[t][k] EXCEPT !.Unresolved = ~resolved]
                    /\ built[t][k] = Original(thread[k])

\* a thread of two whose later comment is unresolved=true with the message
\* " dONE\n" is marked resolved throughout, next to a thread whose last comment
\* is unresolved=true with a substantive message and stays unresolved
C10_Witness ==
    /\ Finished
    /\ \E t \in 1..Len(marked) :
        /\ Len(marked[t]) = 2
        /\ Original(marked[t][1]).Unresolved
        /\ Original(marked[t][1]).Message = Fix
        /\ StrLess(Original(marked[t][1]).Updated, Original(marked[t][2]).Updated)
        /\ Original(marked[t][2]).Unresolved
        /\ Original(marked[t][2]).Message = DoneLoose
        /\ \A k \in 1..2 : ~marked[t][k].Unresolved
    /\ \E t \in 1..Len(marked) :
        /\ Original(marked[t][Len(marked[t])]).Unresolved
        /\ Original(marked[t][Len(marked[t])]).Message = Fix
        /\ \A k \in 1..Len(marked[t]) : marked[t][k].Unresolved

\* the threads in which the comment number i of the input sits, one entry per
\* occurrence
Seats(i) ==
    {<<t, k>> \in (1..Len(built)) \X (1..MaxComments) :
        k <= Len(built[t]) /\ built[t][k].id = i}

SamePlace(x, y) == x.File = y.File /\ x.Line = y.Line

\* C11: buildCommentThreads puts every input comment, unchanged, in exactly
\* one thread; two comments share a thread if and only if they have the same
\* file and the same line; no thread is empty and nothing is lost or
\* duplicated.
C11_ThreadsPartitionInput ==
    Finished =>
        /\ \A i \in 1..Len(comments) :
            /\ Cardinality(Seats(i)) = 1
            /\ \A seat \in Seats(i) : built[seat[1]][seat[2]] = comments[i]
        /\ \A t \in 1..Len(built) :
            /\ Len(built[t]) > 0
            /\ \A k \in 1..Len(built[t]) : built[t][k].id \in 1..Len(comments)
        /\ \A i, j \in 1..Len(comments) :
            (\E si \in Seats(i), sj \in Seats(j) : si[1] = sj[1])
                <=> SamePlace(comments[i], comments[j])

\* three comments, two on one line and one on another line of the same file,
\* come out as a thread of two and a thread of one
C11_Witness ==
    /\ Finished
    /\ Len(comments) = 3
    /\ Len(built) = 2
    /\ \E t, u \in 1..2 :
        /\ Len(built[t]) = 2 /\ Len(built[u]) = 1
        /\ built[t][1].File = built[u][1].File
        /\ built[t][1].Line # built[u][1].Line
        /\ SamePlace(built[t][1], built[t][2])

\* the verdict of a marked thread, read from its last comment as the server
\* sent it
VerdictUnresolved(thread) ==
    LET last == Original(thread[Len(thread)])
    IN  last.Unresolved /\ ~SaysDone(last.Message)

UnresolvedSeats == {t \in 1..Len(marked) : VerdictUnresolved(marked[t])}

IdsOf(sq) == {sq[k].id : k \in 1..Len(sq)}

\* C12: without --all the output is exactly the threads whose verdict is
\* unresolved, each whole; no comment of a resolved thread is displayed, every
\* comment of an unresolved thread is displayed once, and the summary counts
\* those threads, not their comments.
C12_UnresolvedOnlyOutput ==
    (Finished /\ ~showAll) =>
        /\ \A t \in 1..Len(marked) :
            t \in UnresolvedSeats <=> \E u \in 1..Len(threads) : threads[u] = marked[t]
        /\ Len(threads) = Cardinality(UnresolvedSeats)
        /\ \A u \in 1..Len(threads) : \E t \in UnresolvedSeats : threads[u] = marked[t]
        /\ tpc = "none_unresolved" <=> UnresolvedSeats = {}
        /\ tpc = "none_unresolved" => displayed = <<>> /\ summary = NoSummary
        /\ tpc = "printed" =>
            /\ IdsOf(displayed) = UNION {IdsOf(marked[t]) : t \in UnresolvedSeats}
            /\ \A k, l \in 1..Len(displayed) :
                displayed[k].id = displayed[l].id => k = l
            /\ \A k \in 1..Len(displayed) : displayed[k].Unresolved
            /\ summary.label = "Unresolved threads"
            /\ summary.total = Cardinality(UnresolvedSeats)

\* an unresolved thread of two comments next to a resolved thread: one thread
\* is shown, with both of its comments, and the summary says 1
C12_Witness ==
    /\ tpc = "printed"
    /\ ~showAll
    /\ Len(marked) = 2
    /\ Len(threads) = 1
    /\ Len(threads[1]) = 2
    /\ Len(displayed) = 2
    /\ summary.total = 1

-----------------------------------------------------------------------------
(* Properties of the SSH fallback of listChanges.                          *)

\* positions of the change records in an SSH output
RecordLines(out) == {i \in 1..Len(out) : out[i].kind = "record"}

\* what listChangesSSH alone yields for an output: the change records, in the
\* order of the output
SSHAlone(out) ==
    CHOOSE list \in [1..Cardinality(RecordLines(out)) -> {1, 2}] :
        \E pos \in [1..Len(list) -> RecordLines(out)] :
            /\ \A k, l \in 1..Len(list) : k < l => pos[k] < pos[l]
            /\ \A k \in 1..Len(list) : list[k] = out[pos[k]].num

\* C13: when the REST attempt of listChanges fails and the SSH attempt
\* succeeds, the SSH attempt is made with the query and the limit of the
\* operation, and the caller gets exactly the records of the SSH output, in
\* the order of the output.
C13_FallbackEqualsSSHAlone ==
    (op = "runList" /\ qpc = "done" /\ restErr # NoErr) =>
        /\ sshAsked = request
        /\ qresult = SSHAlone(sshOutput)

\* REST fails, SSH prints the records 2 and 1 in that order: the caller gets
\* <<2, 1>>
C13_Witness ==
    /\ op = "runList"
    /\ qpc = "done"
    /\ restErr \in RESTErrors
    /\ sshErr = NoErr
    /\ request.limit = 25
    /\ sshAsked = request
    /\ RecordLines(sshOutput) = {1, 2}
    /\ qresult = <<2, 1>>

-----------------------------------------------------------------------------
(* Properties of the fallback log.                                         *)

\* C14: once the REST attempt of an operation has failed, and so before the
\* SSH attempt starts, the failure has been logged at warning level, which
\* the default logger writes.
C14_RESTFailureWarned ==
    restErr # NoErr =>
        \E i \in 1..Len(logs) :
            /\ logs[i].msg = "REST API failed"
            /\ logs[i].level = "WARN"
            /\ Written(DefaultLevel, logs[i])

-----------------------------------------------------------------------------
(* Properties of the decoding of transport responses.                      *)

\* the SSH command ran and its output has been parsed
SSHParsed ==
    /\ Len(calls) = 4
    /\ calls[4] = "SSH:return"
    /\ sshErr # "SSH command failed"

\* an SSH output none of whose lines decodes, or, for an operation on one
\* change, an output without a change record
SchemaFailure(o, out) ==
    \/ out # <<>> /\ \A i \in 1..Len(out) : out[i].kind = "garbage"
    \/ o # "runList" /\ RecordLines(out) = {}

\* C15: a response that cannot be decoded, or that lacks the change record,
\* is a failure of its transport: a REST body that does not parse sends the
\* operation to SSH, and such an SSH output makes the operation fail; it is
\* never handed over as a successful empty result.
C15_SchemaFailureIsFailure ==
    /\ (restErr = "failed to parse" /\ qpc \in {"done", "failed"})
            => Cardinality(Occurrences("SSH:call")) = 1
    /\ (SSHParsed /\ SchemaFailure(op, sshOutput)) => qpc = "failed"

\* the first change record of an SSH output that has one
FirstRecord(out) ==
    out[CHOOSE i \in RecordLines(out) : \A j \in RecordLines(out) : i <= j].num

\* C16: whatever the place of the statistics line in an SSH output, the lines
\* with a type key are left out and the other decodable records are kept: a
\* list operation returns all of them in output order, an operation on one
\* change uses the first of them.
C16_StatsExcludedRecordsKept ==
    (SSHParsed /\ qpc = "done") =>
        IF op = "runList"
        THEN qresult = SSHAlone(sshOutput)
        ELSE RecordLines(sshOutput) # {} => qresult = <<FirstRecord(sshOutput)>>

-----------------------------------------------------------------------------
(* Properties of the change identifier check.                              *)

\* a decimal number, or I followed by 40 hexadecimal digits
WellFormed(id) ==
    \/ Len(id) >= 1 /\ \A i \in 1..Len(id) : id[i] \in Digits
    \/ /\ Len(id) = 41
       /\ Head(id) = "I"
       /\ \A i \in 1..40 : Tail(id)[i] \in HexChars

\* C17: in every command that takes a change identifier, no REST or SSH
\* request is issued before the identifier has passed the check, and an
\* identifier that is neither a decimal number nor I plus 40 hex digits
\* causes no request at all.
C17_ValidatedBeforeAnyRequest ==
    /\ issued # <<>> => valid = "ok"
    /\ ~WellFormed(identifier) => issued = <<>>

-----------------------------------------------------------------------------
(* Properties of the SSH argument vector.                                  *)

\* C18: the query reaches ssh as one argument of its own, the last one,
\* whatever characters it holds: the number of arguments is the one a query
\* without white space gives, and the arguments before the query are the
\* same.
C18_QueryIsOneArgument ==
    apc = "started" =>
        LET plain == ArgvOf(sshCaller, <<"a">>, queryLimit)
        IN  /\ Len(argv) = Len(plain)
            /\ argv[Len(argv)] = logicalQuery
            /\ \A i \in 1..(Len(argv) - 1) : argv[i] = plain[i]

-----------------------------------------------------------------------------
(* Properties of the report aggregations.                                  *)

\* by count descending, equal counts by name ascending
CountThenName(stats) ==
    \A i, j \in 1..Len(stats) :
        i < j => \/ stats[i].Count > stats[j].Count
                 \/ /\ stats[i].Count = stats[j].Count
                    /\ StrLess(stats[i].Name, stats[j].Name)

\* C19: the by-repository and by-author aggregations are in count-descending
\* order with equal counts in name-ascending order, so that their order is
\* fixed by the changes alone.
C19_CountDescThenNameAsc ==
    gpc = "aggregated" => CountThenName(byRepository) /\ CountThenName(byAuthor)

-----------------------------------------------------------------------------
(* Properties of the transports of the bulk fetch.                         *)

PageErrors == {"request failed", "failed to parse changes"}

\* C20: every request of the bulk fetch goes to REST and none to SSH; a
\* failure of any page, in the request or in the decoding of its body, ends
\* the fetch there with that REST error and without changes.
C20_BulkFetchRESTOnly ==
    /\ Len(fetchVia) = Len(requests)
    /\ \A i \in 1..Len(fetchVia) : fetchVia[i] = "REST"
    /\ ferr # "none" <=> exitBy = "error"
    /\ exitBy = "error" =>
        /\ ferr \in PageErrors
        /\ fpc \in {"returned", "reported"}
        /\ allChanges = <<>>
        /\ Len(requests) = Len(pages) + 1
        /\ fpc = "reported" => console.kind = "failed to fetch changes"

\* the second page fails after a first full page: the fetch is over with the
\* REST error, two REST requests and no other
C20_Witness ==
    /\ fpc = "reported"
    /\ exitBy = "error"
    /\ ferr = "failed to parse changes"
    /\ Len(pages) = 1
    /\ fetchVia = <<"REST", "REST">>
    /\ console.kind = "failed to fetch changes"

-----------------------------------------------------------------------------
(* Properties of the order of the comments.                                *)

\* the members of a thread are in ascending order of their update timestamp
AscendingByUpdated(thread) ==
    \A k, l \in 1..Len(thread) :
        k < l => ~StrLess(thread[l].Updated, thread[k].Updated)

ThreadSet(ths) == {ths[t] : t \in 1..Len(ths)}

C22_DisplayedByFileThenLine ==
    tpc = "printed" =>
        /\ \A k, l \in 1..Len(displayed) :
            k < l =>
                \/ StrLess(displayed[k].File, displayed[l].File)
                \/ /\ displayed[k].File = displayed[l].File
                   /\ displayed[k].Line <= displayed[l].Line
        /\ Len(displayed) = Len(Flatten(threads))
        /\ IdsOf(displayed) = IdsOf(Flatten(threads))

\* comments of two files and of two lines of one file are displayed, and the
\* sort has moved some of them: the threads were not visited in that order
C22_Witness ==
    /\ tpc = "printed"
    /\ Len(displayed) = 3
    /\ displayed # Flatten(threads)
    /\ displayed[1].File = <<"a">> /\ displayed[1].Line = 1
    /\ displayed[2].File = <<"a">> /\ displayed[2].Line = 2
    /\ displayed[3].File = <<"b">>

-----------------------------------------------------------------------------
(* Properties of the monthly timeline.                                     *)

\* the timestamp a change is dated by: submitted, else updated, else none
DatedBy(chg) ==
    IF "submitted" \in DOMAIN chg /\ chg["submitted"].s # <<>>
    THEN chg["submitted"].s
    ELSE IF "updated" \in DOMAIN chg THEN chg["updated"].s ELSE <<>>

\* the first seven characters of a timestamp, YYYY-MM
YearMonth(stamp) == SubSeq(stamp, 1, 7)

DigitValue(c) == (CHOOSE d \in 1..10 : Digit[d] = c) - 1

\* the months since year 0 of a bucket name YYYY-MM
MonthsSinceZero(name) ==
    12 * (1000 * DigitValue(name[1]) + 100 * DigitValue(name[2])
            + 10 * DigitValue(name[3]) + DigitValue(name[4]))
    + 10 * DigitValue(name[6]) + DigitValue(name[7])

Dated == {i \in 1..Len(timelineChanges) : DatedBy(timelineChanges[i]) # <<>>}

\* C23: the timeline has one bucket per YYYY-MM of the changes' submitted
\* timestamps (updated where submitted is absent), each bucket counts the
\* changes of its month, and the buckets are in ascending chronological
\* order.
C23_TimelineBuckets ==
    mpc = "aggregated" =>
        /\ \A i \in Dated :
            \E k \in 1..Len(byMonth) :
                byMonth[k].Name = YearMonth(DatedBy(timelineChanges[i]))
        /\ \A k \in 1..Len(byMonth) :
            /\ byMonth[k].Count > 0
            /\ byMonth[k].Count =
                Cardinality({i \in Dated :
                    YearMonth(DatedBy(timelineChanges[i])) = byMonth[k].Name})
        /\ \A k, l \in 1..Len(byMonth) :
            k < l => MonthsSinceZero(byMonth[k].Name) < MonthsSinceZero(byMonth[l].Name)

\* a change submitted on 2025-02-01 and then one submitted on 2025-01-15,
\* both updated in March: the buckets are 2025-01: 1 and 2025-02: 1, in that
\* order
C23_Witness ==
    /\ mpc = "aggregated"
    /\ timelineChanges = <<TimelineChange(JStr(Feb01), JStr(Mar09)),
                           TimelineChange(JStr(Jan15), JStr(Mar09))>>
    /\ byMonth = <<[Name |-> <<"2", "0", "2", "5", "-", "0", "1">>, Count |-> 1, RepoCount |-> 0],
                   [Name |-> <<"2", "0", "2", "5", "-", "0", "2">>, Count |-> 1, RepoCount |-> 0]>>

-----------------------------------------------------------------------------
(* Properties of the CSV report.                                           *)

Occurs(c, str) == Cardinality({i \in 1..Len(str) : str[i] = c})

\* C24: the row of a change has no comma and no double quote that comes from
\* a free-text field: its only commas are the eight that separate the nine
\* columns and its only double quotes are the two around the subject.
C24_RowHasNineColumns ==
    vpc = "written" =>
        /\ Occurs(Comma, csvRow) = CSVColumns - 1
        /\ Occurs(DoubleQuote, csvRow) = 2

-----------------------------------------------------------------------------
(* Properties of the readers of a change record.                           *)

\* the text of a field of a record, empty when the field is absent
TextAt(mp, key) ==
    IF key \notin DOMAIN mp THEN <<>>
    ELSE IF mp[key].kind = "float64" THEN FormatFloat(mp[key].n)
    ELSE mp[key].s

\* the first non-empty text of a list, or a default
RECURSIVE FirstNonEmpty(_, _)
FirstNonEmpty(texts, default) ==
    IF texts = <<>> THEN default
    ELSE IF Head(texts) # <<>> THEN Head(texts)
    ELSE FirstNonEmpty(Tail(texts), default)

LogicalNumber(chg) ==
    FirstNonEmpty(<<TextAt(chg, "_number"), TextAt(chg, "number")>>, <<>>)

LogicalUpdated(chg) ==
    FirstNonEmpty(<<TextAt(chg, "updated"), TextAt(chg, "lastUpdated")>>, <<>>)

LogicalOwner(chg) ==
    LET owner == IF "owner" \in DOMAIN chg THEN chg["owner"].m ELSE EmptyMap
    IN  FirstNonEmpty(<<TextAt(owner, "name"), TextAt(owner, "username"),
                        TextAt(owner, "email")>>, Unknown)

\* C25: every reader of a record extracts the same logical fields by the same
\* alias priority: the change number is _number, else number; the updated
\* timestamp is updated, else lastUpdated; the owner name is the first
\* non-empty of owner.name, owner.username, owner.email, else the literal
\* unknown; an absent field gives the empty text.
C25_AliasPriorityEverywhere ==
    xpc = "read" =>
        \A reader \in DOMAIN fields :
            /\ fields[reader].owner = LogicalOwner(readChange)
            /\ "number" \in DOMAIN fields[reader] =>
                  fields[reader].number = LogicalNumber(readChange)
            /\ "updated" \in DOMAIN fields[reader] =>
                  fields[reader].updated = LogicalUpdated(readChange)

-----------------------------------------------------------------------------
(* Properties of the check of the SSH key file.                            *)

WellFormedKey(content) ==
    content \in {"rsa private key", "ed25519 private key",
                 "passphrase-protected private key"}

\* C26: ValidateSSHKey returns no error exactly when the path is not empty
\* and names an existing file that holds a well-formed private key,
\* passphrase-protected or not; an empty path is an error, a missing file is
\* the error "does not exist", and a file that holds no valid key is the
\* error "invalid SSH private key".
C26_KeyValidation ==
    (kpc = "returned" /\ keyCaller = "ValidateSSHKey") =>
        /\ keyErr = "nil" <=>
            /\ keyPath # ""
            /\ keyFile.kind = "file"
            /\ WellFormedKey(keyFile.content)
        /\ keyPath = "" => keyErr # "nil"
        /\ (keyPath # "" /\ keyFile.kind = "missing") =>
              keyErr = "SSH key file does not exist"
        /\ (keyPath # "" /\ keyFile.kind = "file" /\ ~WellFormedKey(keyFile.content)) =>
              keyErr = "invalid SSH private key"

-----------------------------------------------------------------------------
(* Properties of the progress of the bulk fetch.                           *)

\* C28: the bulk fetch terminates: a page request is made only at an offset
\* below --max-changes, every request that does not end the loop is followed
\* by a strictly greater offset, and so no more than --max-changes requests
\* are ever made, whatever the server sends and whatever the page size.
C28_AtMostMaxTotalRequests ==
    /\ Len(requests) <= analyzeMaxLimit
    /\ \A i \in 1..Len(requests) : requests[i] < analyzeMaxLimit
    /\ \A i \in 1..Len(requests) :
          i < Len(requests) => requests[i] < requests[i + 1]
    /\ (fpc = "loop" /\ requests # <<>>) => start > requests[Len(requests)]

\* with --max-changes 3 the server sends three full pages of one record, each
\* announcing more: three requests are made, at 0, 1 and 2, and the loop
\* ends on its condition
C28_Witness ==
    /\ fpc = "returned"
    /\ exitBy = "limit"
    /\ analyzeMaxLimit = 3
    /\ requests = <<0, 1, 2>>

\* the records of the pages received before request number i
ReceivedBefore(i) == Flatten(SubSeq(pages, 1, i - 1))

\* C29: every page request is made at the offset that equals the number of
\* records accumulated so far, and a fetch that ends without error returns
\* the pages received, concatenated in order, no record dropped and none
\* twice.
C29_ResultIsConcatenation ==
    /\ \A i \in 1..Len(requests) :
          i - 1 <= Len(pages) /\ requests[i] = Len(ReceivedBefore(i))
    /\ fpc = "loop" => start = Len(allChanges)
    /\ (fpc \in {"returned", "reported"} /\ ferr = "none") =>
          /\ allChanges = Flatten(pages)
          /\ \A k, l \in 1..Len(allChanges) :
                allChanges[k] = allChanges[l] => k = l

\* three pages of 2, 2 and 1 records are received and the fetch returns their
\* five records in the order received
C29_Witness ==
    /\ fpc = "returned"
    /\ ferr = "none"
    /\ exitBy = "short"
    /\ Len(pages) = 3
    /\ Len(pages[1]) = 2 /\ Len(pages[2]) = 2 /\ Len(pages[3]) = 1
    /\ allChanges = pages[1] \o pages[2] \o pages[3]

-----------------------------------------------------------------------------
(* Properties of the comments that came by SSH.                            *)

\* C30: no comment that came by the SSH fallback carries unresolved=true,
\* whatever its entry in the SSH record says; every thread built from them is
\* marked resolved, and without --all nothing is displayed.
C30_SSHCommentsAllResolved ==
    commentsVia = "SSH" =>
        /\ \A i \in 1..Len(comments) : ~comments[i].Unresolved
        /\ Finished =>
            /\ \A t \in 1..Len(marked) :
                  \A k \in 1..Len(marked[t]) : ~marked[t][k].Unresolved
            /\ ~showAll =>
                  /\ tpc = "none_unresolved"
                  /\ threads = <<>>
                  /\ displayed = <<>>

\* the REST transport failed and the SSH record holds two comments on two
\* lines, each with unresolved=true and a substantive message: without --all
\* no thread is displayed
C30_Witness ==
    /\ commentsVia = "SSH"
    /\ tpc = "none_unresolved"
    /\ ~showAll
    /\ Len(commentsData) = 2
    /\ Len(marked) = 2
    /\ \A i \in 1..2 :
          /\ "unresolved" \in DOMAIN commentsData[i]
          /\ commentsData[i]["unresolved"].n = 1
          /\ comments[i].Message = Fix

====
